---- MODULE Spec2Model ----
(***************************************************************************)
(* Model of the tracker-scrapper services: the order service and the       *)
(* tracking dispatcher, both cache-aside over one shared cache, fronted by *)
(* their HTTP handlers.                                                    *)
(*                                                                         *)
(* Strings are sequences of tokens (each token a run of characters that    *)
(* never splits), so that fmt.Sprintf is concatenation and two different   *)
(* argument lists may format to the same key.                              *)
(***************************************************************************)
EXTENDS Integers, Sequences, FiniteSets, TLC

VARIABLES cache, call, ncalls, lastResp, ttlOpen, woo, inter,
          fp, caller, sock, traffic, hist, lookup, mapper, scrape

vars == <<cache, call, ncalls, lastResp, ttlOpen, woo, inter,
          fp, caller, sock, traffic, hist, lookup, mapper,
          scrape>>

\* The state of one forwarding proxy and its surroundings.
proxyVars == <<fp, caller, sock, traffic, hist>>

\* The state of the two services and their cache.
serviceVars == <<cache, call, ncalls, lastResp, ttlOpen>>

\* The state outside the two services.
outsideServices == <<woo, inter, proxyVars, lookup, mapper, scrape>>

\* Total number of requests served in one run of the model.
MaxCalls == 2

\* Request tasks served in parallel (one task per incoming HTTP request).
Workers == {"w1", "w2"}

NoError == << >>

-----------------------------------------------------------------------------
(* Strings *)

EmptyString == << >>

ToLower(tok) ==
    CASE tok = "A" -> "a"
      [] tok = "B" -> "b"
      [] tok = "Completed" -> "completed"
      [] tok = "REFUNDED" -> "refunded"
      [] tok = "On-Hold" -> "on-hold"
      [] tok = "Servientrega" -> "servientrega"
      [] tok = "DHL" -> "dhl"
      [] OTHER -> tok

\* strings.EqualFold on the model's alphabet.
EqualFold(s, t) ==
    /\ Len(s) = Len(t)
    /\ \A i \in 1..Len(s) : ToLower(s[i]) = ToLower(t[i])

DigitToken == <<"1", "2", "3", "4", "5", "6", "7", "8", "9">>

\* strconv.Itoa for the non-negative numbers of the model, a token per digit.
RECURSIVE Itoa(_)
Itoa(n) ==
    IF n < 10 THEN <<IF n = 0 THEN "0" ELSE DigitToken[n]>>
    ELSE Itoa(n \div 10) \o Itoa(n % 10)

-----------------------------------------------------------------------------
(* Errors: an error is the chain of messages errors.Unwrap walks, outermost   *)
(* first; the nil error is the empty chain.                                   *)

ErrOrderNotFound == <<"order not found">>
ErrEmailMismatch == <<"email does not match order record">>
ErrCourierNotSupported == <<"courier not supported">>

\* errors.Is against a sentinel: identity of some error in the chain. The
\* sentinels are the only errors whose chain is their own single message
\* without arguments; an fmt.Errorf value carries its format as message.
ErrorsIs(err, target) ==
    \E i \in 1..Len(err) : SubSeq(err, i, Len(err)) = target

\* fmt.Errorf("...: %w", cause)
Wrap(msg, cause) == <<msg>> \o cause

-----------------------------------------------------------------------------
(* encoding/json. A document is a record: its kind and, for an object, the    *)
(* sequence of its members <<name, value>> in field order. Marshal writes     *)
(* the members of a struct; Unmarshal reads them back by name into a zero     *)
(* value, so a missing member leaves the zero value and "null" leaves the     *)
(* whole struct zero.                                                         *)

NoDoc == [kind |-> "none", members |-> << >>]
GarbageDoc == [kind |-> "garbage", members |-> << >>]

Object(members) == [kind |-> "object", members |-> members]

HasMember(members, name) == \E i \in 1..Len(members) : members[i][1] = name

MemberValue(members, name) ==
    members[CHOOSE i \in 1..Len(members) : members[i][1] = name][2]

StringMember(members, name) ==
    IF HasMember(members, name) THEN MemberValue(members, name) ELSE EmptyString

\* time.Time.MarshalJSON / UnmarshalJSON (RFC 3339); the zero instant is a
\* value like any other.
ZeroTime == "0001-01-01T00:00:00Z"

MarshalTime(t) == <<"rfc3339", t>>

UnmarshalTime(v) == v[2]

ZeroOrder == [ID |-> EmptyString, FirstName |-> EmptyString, Email |-> EmptyString]

MarshalOrder(order) ==
    Object(<< <<"order_id", order.ID>>,
              <<"name", order.FirstName>>,
              <<"email", order.Email>> >>)

UnmarshalOrder(doc) ==
    CASE doc.kind = "object" ->
           [ok |-> TRUE,
            val |-> [ID |-> StringMember(doc.members, "order_id"),
                     FirstName |-> StringMember(doc.members, "name"),
                     Email |-> StringMember(doc.members, "email")]]
      [] doc.kind = "null" -> [ok |-> TRUE, val |-> ZeroOrder]
      [] OTHER -> [ok |-> FALSE, val |-> ZeroOrder]

ZeroHistory == [GlobalStatus |-> EmptyString, History |-> << >>, HistoryIsNil |-> TRUE]

MarshalEvent(e) ==
    << <<"date", MarshalTime(e.Date)>>,
       <<"text", e.Text>>,
       <<"city", e.City>>,
       <<"code", e.Code>> >>

\* An event read back without its code.
UnmarshalEventNoCode(m) ==
    [Date |-> IF HasMember(m, "date") THEN UnmarshalTime(MemberValue(m, "date"))
              ELSE ZeroTime,
     Text |-> StringMember(m, "text"),
     City |-> StringMember(m, "city"),
     Code |-> EmptyString]

UnmarshalEvent(m) ==
    [Date |-> IF HasMember(m, "date") THEN UnmarshalTime(MemberValue(m, "date"))
              ELSE ZeroTime,
     Text |-> StringMember(m, "text"),
     City |-> StringMember(m, "city"),
     Code |-> StringMember(m, "code")]

\* An encoding that leaves the events out.
MarshalEventsOmitted(h) == <<"null">>

\* A nil slice is written as null, an empty one as [].
MarshalEvents(h) ==
    IF h.HistoryIsNil THEN <<"null">>
    ELSE <<"array", [i \in 1..Len(h.History) |-> MarshalEvent(h.History[i])]>>

MarshalHistory(h) ==
    Object(<< <<"global_status", h.GlobalStatus>>,
              <<"history", MarshalEvents(h)>> >>)

UnmarshalHistory(doc) ==
    CASE doc.kind = "object" ->
           LET m == doc.members
               ev == IF HasMember(m, "history") THEN MemberValue(m, "history")
                     ELSE <<"null">>
           IN [ok |-> TRUE,
               val |-> [GlobalStatus |-> StringMember(m, "global_status"),
                        History |-> IF ev[1] = "array"
                                    THEN [i \in 1..Len(ev[2]) |-> UnmarshalEvent(ev[2][i])]
                                    ELSE << >>,
                        HistoryIsNil |-> ev[1] # "array"]]
      [] doc.kind = "null" -> [ok |-> TRUE, val |-> ZeroHistory]
      [] OTHER -> [ok |-> FALSE, val |-> ZeroHistory]

-----------------------------------------------------------------------------
(* The cache port and its Redis adapter. A Get fails with an error both for   *)
(* an absent key (redis.Nil) and for a transport fault; a Set fails on a      *)
(* transport fault and then stores nothing.                                   *)

CacheGet(c, key, fault) ==
    IF fault THEN [err |-> <<"failed to get key">>, data |-> NoDoc]
    ELSE IF c[key] = NoDoc THEN [err |-> <<"key not found">>, data |-> NoDoc]
    ELSE [err |-> NoError, data |-> c[key]]

CacheSet(c, key, value, fault) ==
    IF fault THEN [cache |-> c, err |-> <<"failed to set key">>]
    ELSE [cache |-> [c EXCEPT ![key] = value], err |-> NoError]

-----------------------------------------------------------------------------
(* Orders: the upstream shop, its adapter, the service and the handler.       *)

OrderID1 == <<"1">>
OrderIDSplit == <<"1", "_", "a">>
EmailLower == <<"a", "_", "b">>
EmailUpper == <<"A", "_", "B">>
EmailOther == <<"b">>

\* The orders the upstream shop holds, by the path segment that names them.
\* Its order numbers are integers (woocommerceOrder.ID), so no other path
\* segment names an order.
WooOrders ==
    (OrderID1 :> [id |-> 1, first_name |-> <<"john">>, email |-> <<"a", "_", "B">>])

\* What the shop may answer to GET /wp-json/wc/v3/orders/{orderID}.
UpstreamResponses(orderID) ==
    {IF orderID \in DOMAIN WooOrders THEN "200" ELSE "404", "500", "neterr"}

mapToDomain(wcOrder) ==
    [ID |-> Itoa(wcOrder.id), FirstName |-> wcOrder.first_name, Email |-> wcOrder.email]

\* WooCommerceAdapter.GetOrder: (order, err) for one upstream answer.
WooGetOrder(orderID, resp) ==
    CASE resp = "neterr" ->
           [hasOrder |-> FALSE, order |-> ZeroOrder,
            err |-> Wrap("failed to execute request: %w", <<"dial tcp">>)]
      [] resp = "404" ->
           [hasOrder |-> FALSE, order |-> ZeroOrder, err |-> <<"order not found: %s">>]
      [] resp = "200" ->
           [hasOrder |-> TRUE, order |-> mapToDomain(WooOrders[orderID]), err |-> NoError]
      [] OTHER ->
           [hasOrder |-> FALSE, order |-> ZeroOrder,
            err |-> <<"woocommerce API returned status: %d">>]

\* A key that leaves the email out.
OrderCacheKeyByID(orderID, email) == <<"order", "_">> \o orderID

\* fmt.Sprintf("order_%s_%s", orderID, email)
OrderCacheKey(orderID, email) == <<"order", "_">> \o orderID \o <<"_">> \o email

\* OrderService.GetOrder, the cache read: hit is TRUE when the entry was
\* read and decoded, and the call returns it.
OrderAfterGet(got) ==
    LET dec == UnmarshalOrder(got.data)
    IN  IF got.err = NoError /\ dec.ok
        THEN [hit |-> TRUE, order |-> dec.val]
        ELSE [hit |-> FALSE, order |-> ZeroOrder]

\* The Set placed before the email check.
OrderAfterProviderSetFirst(provided, email) ==
    IF provided.err # NoError
    THEN [err |-> provided.err, hasOrder |-> FALSE, order |-> ZeroOrder, doSet |-> FALSE]
    ELSE IF ~provided.hasOrder
    THEN [err |-> ErrOrderNotFound, hasOrder |-> FALSE, order |-> ZeroOrder, doSet |-> FALSE]
    ELSE IF ~EqualFold(provided.order.Email, email)
    THEN [err |-> ErrEmailMismatch, hasOrder |-> FALSE, order |-> provided.order,
          doSet |-> TRUE]
    ELSE [err |-> NoError, hasOrder |-> TRUE, order |-> provided.order, doSet |-> TRUE]

\* OrderService.GetOrder, from the provider's answer to the decision to
\* cache: the error returned, the order returned and whether a Set follows.
OrderAfterProvider(provided, email) ==
    IF provided.err # NoError
    THEN [err |-> provided.err, hasOrder |-> FALSE, order |-> ZeroOrder, doSet |-> FALSE]
    ELSE IF ~provided.hasOrder
    THEN [err |-> ErrOrderNotFound, hasOrder |-> FALSE, order |-> ZeroOrder, doSet |-> FALSE]
    ELSE IF ~EqualFold(provided.order.Email, email)
    THEN [err |-> ErrEmailMismatch, hasOrder |-> FALSE, order |-> ZeroOrder, doSet |-> FALSE]
    ELSE [err |-> NoError, hasOrder |-> TRUE, order |-> provided.order, doSet |-> TRUE]

\* The error of the Set is returned.
OrderAfterSetReturned(setErr) == setErr

\* OrderService.GetOrder, the cache write: the error of the call once the
\* Set has answered setErr.
OrderAfterSet(setErr) == NoError

\* OrderHandler.GetOrder, the status of the response for a service result.
OrderHandlerStatus(err) ==
    IF err = NoError THEN 200
    ELSE IF ErrorsIs(err, ErrOrderNotFound) THEN 404
    ELSE IF ErrorsIs(err, ErrEmailMismatch) THEN 401
    ELSE 500

OrderRequests ==
    { <<OrderID1, EmailLower>>, <<OrderID1, EmailUpper>>, <<OrderID1, EmailOther>>,
      <<OrderIDSplit, EmailOther>>, <<OrderID1, EmptyString>> }

-----------------------------------------------------------------------------
(* The order adapter's mapping of an upstream payload: tracking extraction    *)
(* and status.                                                                *)

\* OrderStatus values.
OrderStatusCreated == <<"CREATED">>
OrderStatusShipped == <<"SHIPPED">>
OrderStatusCompleted == <<"COMPLETED">>
OrderStatusCancelled == <<"CANCELLED">>
OrderStatusPending == <<"PENDING">>

\* strings.ToLower, token by token.
StringsToLower(s) == [i \in 1..Len(s) |-> ToLower(s[i])]

\* wcMetaData.Value is any JSON value: a string, a number, null, or an array
\* whose elements are objects (with the two members read from a tracking
\* item, "" when absent) or something else.
StringValue(s) == [kind |-> "string", str |-> s, items |-> << >>]
NumberValue == [kind |-> "number", str |-> EmptyString, items |-> << >>]
NullValue == [kind |-> "null", str |-> EmptyString, items |-> << >>]
ArrayValue(items) == [kind |-> "array", str |-> EmptyString, items |-> items]

ItemObject(provider, number) ==
    [isObject |-> TRUE, tracking_provider |-> provider, tracking_number |-> number]

ItemNotObject ==
    [isObject |-> FALSE, tracking_provider |-> EmptyString,
     tracking_number |-> EmptyString]

Meta(key, value) == [Key |-> key, Value |-> value]

TrackingInfo(provider, number) ==
    [TrackingProvider |-> provider, TrackingNumber |-> number]

\* val, ok := meta.Value.(string); ok && val != ""
NonEmptyString(value) == value.kind = "string" /\ value.str # EmptyString

ShippingNumberKeys ==
    {<<"Tracking Number">>, <<"tracking_number">>, <<"_tracking_number">>}

ShippingCompanyKeys ==
    {<<"Tracking Company">>, <<"tracking_company">>, <<"_tracking_company">>,
     <<"tracking_provider">>}

LegacyNumberKeys ==
    {<<"tracking_number">>, <<"_tracking_number">>, <<"wc_shipment_tracking_number">>}

LegacyCompanyKeys ==
    {<<"tracking_company">>, <<"_tracking_company">>, <<"tracking_provider">>}

PluginKey == <<"_wc_shipment_tracking_items">>

\* A loop over metadata that keeps the last non-empty string found under one
\* of the keys, starting from cur.
RECURSIVE LastValue(_, _, _)
LastValue(metas, keys, cur) ==
    IF metas = << >> THEN cur
    ELSE LET m == Head(metas)
         IN  LastValue(Tail(metas), keys,
                       IF m.Key \in keys /\ NonEmptyString(m.Value)
                       THEN m.Value.str ELSE cur)

\* An entry taken from metadata only when one of its two fields is set.
EntryIfAny(provider, number) ==
    IF number # EmptyString \/ provider # EmptyString
    THEN <<TrackingInfo(provider, number)>> ELSE << >>

\* extractTrackingInfo, the loop over the shipping lines.
RECURSIVE ShippingLineTracking(_)
ShippingLineTracking(lines) ==
    IF lines = << >> THEN << >>
    ELSE LET metas == Head(lines).MetaData
         IN  EntryIfAny(LastValue(metas, ShippingCompanyKeys, EmptyString),
                        LastValue(metas, ShippingNumberKeys, EmptyString))
             \o ShippingLineTracking(Tail(lines))

\* parseTrackingItems: the value re-encoded and decoded as []wcTrackingItem.
parseTrackingItems(value) ==
    IF value.kind = "null" THEN [err |-> FALSE, items |-> << >>]
    ELSE IF value.kind = "array" /\ \A i \in 1..Len(value.items) : value.items[i].isObject
    THEN [err |-> FALSE,
          items |-> [i \in 1..Len(value.items) |->
                       TrackingInfo(value.items[i].tracking_provider,
                                    value.items[i].tracking_number)]]
    ELSE [err |-> TRUE, items |-> << >>]

\* extractTrackingInfo, the loop over the plugin metadata: the items of the
\* first _wc_shipment_tracking_items entry that parses to a non-empty list.
RECURSIVE PluginTracking(_)
PluginTracking(metas) ==
    IF metas = << >> THEN << >>
    ELSE LET m == Head(metas)
             parsed == parseTrackingItems(m.Value)
         IN  IF m.Key = PluginKey /\ ~parsed.err /\ Len(parsed.items) > 0
             THEN parsed.items
             ELSE PluginTracking(Tail(metas))

\* strings.Contains(carrier, word), for a word that is one token.
Contains(s, word) == \E i \in 1..Len(s) : s[i] = word

HasSuffixCo(s) == Len(s) >= 2 /\ s[Len(s) - 1] = "_" /\ s[Len(s)] = "co"

normalizeCarrierName(name) ==
    LET carrier == StringsToLower(name)
    IN  IF Contains(carrier, "servientrega") THEN <<"servientrega", "_", "co">>
        ELSE IF Contains(carrier, "coordinadora") THEN <<"coordinadora", "_", "co">>
        ELSE IF Contains(carrier, "interrapidisimo") \/ Contains(carrier, "inter")
        THEN <<"interrapidisimo", "_", "co">>
        ELSE IF HasSuffixCo(carrier) THEN carrier
        ELSE carrier \o <<"_", "co">>

\* A note's text, as the pattern of extractTrackingFromNotes sees it: the
\* non-blank word after "No de guia:" and the one after "Paqueteria:", each ""
\* when the text lacks that part.
NoteText(guia, paqueteria) == [guia |-> guia, paqueteria |-> paqueteria]

extractTrackingFromNotes(text) ==
    IF text.guia = EmptyString \/ text.paqueteria = EmptyString THEN << >>
    ELSE LET carrier == normalizeCarrierName(text.paqueteria)
         IN  IF carrier = EmptyString THEN << >>
             ELSE <<TrackingInfo(carrier, text.guia)>>

\* getTrackingFromNotes: nil when the notes request fails; else the result of
\* the first customer note that yields tracking.
RECURSIVE FirstNoteTracking(_)
FirstNoteTracking(notes) ==
    IF notes = << >> THEN << >>
    ELSE LET n == Head(notes)
         IN  IF n.CustomerNote /\ Len(extractTrackingFromNotes(n.Note)) > 0
             THEN extractTrackingFromNotes(n.Note)
             ELSE FirstNoteTracking(Tail(notes))

getTrackingFromNotes(answer) ==
    IF ~answer.ok THEN << >> ELSE FirstNoteTracking(answer.notes)

\* An extraction that asks for the notes of every order.
NotesRequestsAlways(order) == 1

\* The requests extractTrackingInfo makes for the order's notes: the one of
\* getTrackingFromNotes, in the final fallback.
NotesRequests(order) ==
    IF /\ Len(ShippingLineTracking(order.ShippingLines)) = 0
       /\ Len(PluginTracking(order.MetaData)) = 0
       /\ Len(EntryIfAny(LastValue(order.MetaData, LegacyCompanyKeys, EmptyString),
                         LastValue(order.MetaData, LegacyNumberKeys, EmptyString))) = 0
    THEN 1 ELSE 0

\* An extraction that collects the entries of all four sources.
extractTrackingInfoFromAll(order, notesAnswer) ==
    ShippingLineTracking(order.ShippingLines)
    \o PluginTracking(order.MetaData)
    \o EntryIfAny(LastValue(order.MetaData, LegacyCompanyKeys, EmptyString),
                  LastValue(order.MetaData, LegacyNumberKeys, EmptyString))
    \o getTrackingFromNotes(notesAnswer)

extractTrackingInfo(order, notesAnswer) ==
    LET shipping == ShippingLineTracking(order.ShippingLines)
        plugin == PluginTracking(order.MetaData)
        legacy == EntryIfAny(LastValue(order.MetaData, LegacyCompanyKeys, EmptyString),
                             LastValue(order.MetaData, LegacyNumberKeys, EmptyString))
    IN  IF Len(shipping) > 0 THEN shipping
        ELSE IF Len(plugin) > 0 THEN plugin
        ELSE IF Len(legacy) > 0 THEN legacy
        ELSE getTrackingFromNotes(notesAnswer)

\* A status mapping that looks at the upstream status alone.
mapStatusIgnoringTracking(status, tracking) ==
    LET lowerStatus == StringsToLower(status)
    IN  IF lowerStatus = <<"completed">> THEN OrderStatusShipped
        ELSE IF lowerStatus \in {<<"cancelled">>, <<"refunded">>, <<"failed">>}
        THEN OrderStatusCancelled
        ELSE IF lowerStatus \in {<<"pending">>, <<"processing">>, <<"on-hold">>}
        THEN OrderStatusCreated
        ELSE OrderStatusPending

mapStatus(status, tracking) ==
    IF Len(tracking) > 0 THEN OrderStatusShipped
    ELSE LET lowerStatus == StringsToLower(status)
         IN  IF lowerStatus = <<"completed">> THEN OrderStatusShipped
             ELSE IF lowerStatus \in {<<"cancelled">>, <<"refunded">>, <<"failed">>}
             THEN OrderStatusCancelled
             ELSE IF lowerStatus \in {<<"pending">>, <<"processing">>, <<"on-hold">>}
             THEN OrderStatusCreated
             ELSE OrderStatusPending

-----------------------------------------------------------------------------
(* Tracking: the registered providers, the dispatcher and the handler.        *)

CoordinadoraCo == <<"coordinadora", "_", "co">>
ServientregaCo == <<"servientrega", "_", "co">>
InterrapidisimoCo == <<"interrapidisimo", "_", "co">>
Servientrega == <<"servientrega">>
Waybill1 == <<"1">>
WaybillCo1 == <<"co", "_", "1">>

\* The providers in registration order, each with the one courier name its
\* SupportsCourier accepts.
Providers == <<CoordinadoraCo, ServientregaCo, InterrapidisimoCo>>

SupportsCourier(i, courierName) == courierName = Providers[i]

\* A loop that fetches from the provider it is at without asking
\* SupportsCourier.
SelectProviderUnasked(courier, from) == IF from <= Len(Providers) THEN from ELSE 0

\* A loop that ends at the first registered provider when none supports the
\* courier.
SelectProviderOrFirst(courier, from) ==
    LET sup == {i \in from..Len(Providers) : SupportsCourier(i, courier)}
    IN  IF sup = {} THEN 1 ELSE CHOOSE i \in sup : \A j \in sup : i <= j

\* The range loop of GetTrackingHistory, entered at position from: the
\* provider it stops at, 0 when it runs off the end of the list.
SelectProvider(courier, from) ==
    LET sup == {i \in from..Len(Providers) : SupportsCourier(i, courier)}
    IN  IF sup = {} THEN 0 ELSE CHOOSE i \in sup : \A j \in sup : i <= j

Event1 == [Date |-> "2026-01-31T12:51:00Z", Text |-> <<"Guia generada">>,
           City |-> <<"Bogota">>, Code |-> <<"1">>]
Event2 == [Date |-> ZeroTime, Text |-> <<"ENTREGADA">>,
           City |-> EmptyString, Code |-> <<"6">>]

\* What a carrier may show for a waybill at the time of a call: two stages of
\* the shipment, or a failure of the scrape.
InTransit == [GlobalStatus |-> <<"PROCESSING">>, History |-> <<Event1>>,
              HistoryIsNil |-> FALSE]
Delivered == [GlobalStatus |-> <<"COMPLETED">>, History |-> <<Event1, Event2>>,
              HistoryIsNil |-> FALSE]

ProviderAnswers == {"transit", "delivered", "err"}

\* provider.GetTrackingHistory(trackingNumber) for one answer of the carrier.
ProviderFetch(i, trackingNumber, answer) ==
    CASE answer = "transit" -> [hasHistory |-> TRUE, history |-> InTransit, err |-> NoError]
      [] answer = "delivered" -> [hasHistory |-> TRUE, history |-> Delivered, err |-> NoError]
      [] OTHER -> [hasHistory |-> FALSE, history |-> ZeroHistory,
                   err |-> <<"timeout waiting for response">>]

\* fmt.Sprintf("ts_%s_%s", courier, trackingNumber)
TrackingCacheKey(trackingNumber, courier) ==
    <<"ts", "_">> \o courier \o <<"_">> \o trackingNumber

\* A dispatcher that never uses what it read.
TrackingAfterGetIgnored(got) == [hit |-> FALSE, history |-> ZeroHistory]

\* TrackingService.GetTrackingHistory, the cache read.
TrackingAfterGet(got) ==
    LET dec == UnmarshalHistory(got.data)
    IN  IF got.err = NoError /\ dec.ok
        THEN [hit |-> TRUE, history |-> dec.val]
        ELSE [hit |-> FALSE, history |-> ZeroHistory]

\* A failed provider is skipped and the loop goes on.
TrackingAfterProviderSkipped(fetched) ==
    IF fetched.err # NoError
    THEN [err |-> NoError, hasHistory |-> FALSE, history |-> ZeroHistory,
          doSet |-> FALSE, again |-> TRUE]
    ELSE [err |-> NoError, hasHistory |-> fetched.hasHistory,
          history |-> fetched.history, doSet |-> TRUE, again |-> FALSE]

\* The result is returned without the Set.
TrackingAfterProviderUncached(fetched) ==
    IF fetched.err # NoError
    THEN [err |-> Wrap("failed to get tracking from provider: %w", fetched.err),
          hasHistory |-> FALSE, history |-> ZeroHistory, doSet |-> FALSE,
          again |-> FALSE]
    ELSE [err |-> NoError, hasHistory |-> fetched.hasHistory,
          history |-> fetched.history, doSet |-> FALSE, again |-> FALSE]

\* TrackingService.GetTrackingHistory, from the provider's answer to the
\* decision to cache; again is TRUE when the loop goes on to the next
\* provider (it never does: both branches return).
TrackingAfterProvider(fetched) ==
    IF fetched.err # NoError
    THEN [err |-> Wrap("failed to get tracking from provider: %w", fetched.err),
          hasHistory |-> FALSE, history |-> ZeroHistory, doSet |-> FALSE,
          again |-> FALSE]
    ELSE [err |-> NoError, hasHistory |-> fetched.hasHistory,
          history |-> fetched.history, doSet |-> TRUE, again |-> FALSE]

\* TrackingService.GetTrackingHistory, the cache write: the error of the
\* call once the Set has answered setErr.
TrackingAfterSet(setErr) == NoError

\* A handler that answers every service error alike.
TrackingHandlerStatusAll500(err) ==
    IF err = NoError THEN 200 ELSE 500

\* TrackingHandler.GetTrackingHistory, the status of the response.
TrackingHandlerStatus(err) ==
    IF err = NoError THEN 200
    ELSE IF err = ErrCourierNotSupported THEN 404
    ELSE 500

\* The request id middleware, for a request that brings no X-Ray-ID header:
\* an id generated for it, different for each request (n numbers them).
RequestID(n) == <<"uuid">> \o Itoa(n)

\* TrackingHandler.GetTrackingHistory, the ray_id of the response: every
\* ErrorResponse carries the request id; the 200 body is the history.
TrackingHandlerRayID(status, requestid) ==
    IF status = 200 THEN EmptyString ELSE requestid

TrackingRequests ==
    { <<Waybill1, CoordinadoraCo>>, <<Waybill1, ServientregaCo>>,
      <<WaybillCo1, Servientrega>>, <<Waybill1, EmptyString>>,
      <<EmptyString, CoordinadoraCo>> }

-----------------------------------------------------------------------------
(* The forwarding proxy: its allowlist and its request handlers.              *)

\* Host names and addresses are strings whose tokens are labels, "." and,
\* before a port, ":".
ExampleTest == <<"example", ".", "test">>
InterrapidisimoCom == <<"interrapidisimo", ".", "com">>

\* net.SplitHostPort for addresses without brackets: the host before the one
\* colon; an error when there is no colon or more than one.
SplitHostPort(hostport) ==
    LET colons == {i \in 1..Len(hostport) : hostport[i] = ":"}
    IN  IF Cardinality(colons) = 1
        THEN [err |-> FALSE,
              host |-> SubSeq(hostport, 1, (CHOOSE i \in colons : TRUE) - 1)]
        ELSE [err |-> TRUE, host |-> EmptyString]

HasSuffix(s, suffix) ==
    /\ Len(suffix) <= Len(s)
    /\ SubSeq(s, Len(s) - Len(suffix) + 1, Len(s)) = suffix

\* An allowlist test that accepts a host in which an entry occurs anywhere.
isAllowedAnywhere(allowedDomains, host) ==
    \/ Len(allowedDomains) = 0
    \/ \E d \in 1..Len(allowedDomains) : \E i \in 1..Len(host) :
          /\ i + Len(allowedDomains[d]) - 1 <= Len(host)
          /\ SubSeq(host, i, i + Len(allowedDomains[d]) - 1) = allowedDomains[d]

\* The isAllowed closure of Start.
isAllowed(allowedDomains, host) ==
    \/ Len(allowedDomains) = 0
    \/ LET split == SplitHostPort(host)
           h == IF split.err THEN host ELSE split.host
       IN  \E d \in 1..Len(allowedDomains) : HasSuffix(h, allowedDomains[d])

\* The upstream proxy's URL after url.Parse: its User part (nil when the URL
\* names no user) is all the proxy reads besides the host.
Userinfo(username, password) ==
    [isNil |-> FALSE, username |-> username, password |-> password]

NoUserinfo == [isNil |-> TRUE, username |-> EmptyString, password |-> EmptyString]

URL(user) == [User |-> user]

\* The URLs Settings.FullURL produces: with the credentials when both are
\* configured, without a user otherwise.
UpstreamURLs == {URL(NoUserinfo), URL(Userinfo(<<"user">>, <<"pass">>))}

\* base64.StdEncoding.EncodeToString.
Base64(s) == <<"base64(">> \o s \o <<")">>

\* A proxy that sends the header whatever the upstream URL.
ProxyAuthAlways(upstreamURL) ==
    <<"Basic ">> \o Base64(upstreamURL.User.username \o <<":">>
                           \o upstreamURL.User.password)

\* The proxyAuth value computed by Start.
ProxyAuth(upstreamURL) ==
    IF upstreamURL.User.isNil THEN EmptyString
    ELSE <<"Basic ">> \o Base64(upstreamURL.User.username \o <<":">>
                                \o upstreamURL.User.password)

\* What the upstream proxy does with the dial and the CONNECT handshake: the
\* dial fails, the write fails, the response cannot be read, the response
\* has a status other than 200, or the tunnel is established.
UpstreamOutcomes == {"tunnel", "dialerr", "writeerr", "readerr", "non200"}

\* The CONNECT request dialThroughProxy writes to the upstream proxy; auth is
\* the value of its Proxy-Authorization header, empty when it has none.
ConnectRequest(addr, proxyAuth) == [target |-> addr, Host |-> addr, auth |-> proxyAuth]

NoRequest == ConnectRequest(EmptyString, EmptyString)

DialResult(dialled, conn, steps, opened, closed, wrote, err) ==
    [dialled |-> dialled, conn |-> conn, steps |-> steps, opened |-> opened,
     closed |-> closed, wrote |-> wrote, err |-> err]

\* A dial that returns the upstream connection whatever status the upstream
\* proxy answered.
dialThroughProxyAnyStatus(allowedDomains, proxyAuth, addr, upstream) ==
    IF ~isAllowed(allowedDomains, addr)
    THEN DialResult(FALSE, FALSE, << >>, FALSE, FALSE, NoRequest,
                    <<"access denied to domain: %s">>)
    ELSE IF upstream = "dialerr"
    THEN DialResult(TRUE, FALSE, <<"dial">>, FALSE, FALSE, NoRequest,
                    <<"failed to connect to upstream proxy %s", "dial">>)
    ELSE IF upstream = "writeerr"
    THEN DialResult(TRUE, FALSE, <<"dial", "write">>, TRUE, TRUE,
                    ConnectRequest(addr, proxyAuth),
                    <<"failed to send CONNECT request", "write">>)
    ELSE IF upstream = "readerr"
    THEN DialResult(TRUE, FALSE, <<"dial", "write", "read">>, TRUE, TRUE,
                    ConnectRequest(addr, proxyAuth),
                    <<"failed to read CONNECT response", "read">>)
    ELSE DialResult(TRUE, TRUE, <<"dial", "write", "read">>, TRUE, FALSE,
                    ConnectRequest(addr, proxyAuth), NoError)

\* The dialThroughProxy closure of Start: the steps it takes with the
\* upstream proxy, the request it writes, whether it opened a connection,
\* whether it closed it again, and whether it returns it.
dialThroughProxy(allowedDomains, proxyAuth, addr, upstream) ==
    IF ~isAllowed(allowedDomains, addr)
    THEN DialResult(FALSE, FALSE, << >>, FALSE, FALSE, NoRequest,
                    <<"access denied to domain: %s">>)
    ELSE IF upstream = "dialerr"
    THEN DialResult(TRUE, FALSE, <<"dial">>, FALSE, FALSE, NoRequest,
                    <<"failed to connect to upstream proxy %s", "dial">>)
    ELSE IF upstream = "writeerr"
    THEN DialResult(TRUE, FALSE, <<"dial", "write">>, TRUE, TRUE,
                    ConnectRequest(addr, proxyAuth),
                    <<"failed to send CONNECT request", "write">>)
    ELSE IF upstream = "readerr"
    THEN DialResult(TRUE, FALSE, <<"dial", "write", "read">>, TRUE, TRUE,
                    ConnectRequest(addr, proxyAuth),
                    <<"failed to read CONNECT response", "read">>)
    ELSE IF upstream = "non200"
    THEN DialResult(TRUE, FALSE, <<"dial", "write", "read">>, TRUE, TRUE,
                    ConnectRequest(addr, proxyAuth),
                    <<"upstream proxy CONNECT failed with status: %d">>)
    ELSE DialResult(TRUE, TRUE, <<"dial", "write", "read">>, TRUE, FALSE,
                    ConnectRequest(addr, proxyAuth), NoError)

\* The port a plain HTTP request is dialled at when its host names none.
DialAddr(host) == IF SplitHostPort(host).err THEN host \o <<":", "80">> ELSE host

\* What became of one client request: the status answered, the verdict on a
\* CONNECT, and the dial made for it. Once the dial has returned a
\* connection the proxy passes bytes between the client and the upstream
\* proxy over it (the step "splice").
Handled(status, verdict, d) ==
    [status |-> status, verdict |-> verdict, dialled |-> d.dialled,
     steps |-> IF d.conn THEN d.steps \o <<"splice">> ELSE d.steps,
     opened |-> d.opened, closed |-> d.closed, wrote |-> d.wrote, err |-> d.err]

NoDial == DialResult(FALSE, FALSE, << >>, FALSE, FALSE, NoRequest, NoError)

\* A plain HTTP request through the proxy: the OnRequest().DoFunc handler,
\* then, unless it answered, the round trip over Tr (which dials through
\* dialThroughProxy).
HandleHTTP(allowedDomains, proxyAuth, host, upstream) ==
    IF ~isAllowed(allowedDomains, host)
    THEN Handled(403, "none", NoDial)
    ELSE LET d == dialThroughProxy(allowedDomains, proxyAuth, DialAddr(host),
                                   upstream)
         IN  Handled(IF d.conn THEN 200 ELSE 500, "none", d)

\* A CONNECT through the proxy: the OnRequest().HandleConnectFunc handler,
\* then, on OkConnect, ConnectDial.
HandleConnect(allowedDomains, proxyAuth, host, upstream) ==
    IF ~isAllowed(allowedDomains, host)
    THEN Handled(0, "reject", NoDial)
    ELSE LET d == dialThroughProxy(allowedDomains, proxyAuth, host, upstream)
         IN  Handled(IF d.conn THEN 200 ELSE 502, "ok", d)

\* Destinations of the requests clients send through the proxy.
Destinations ==
    { ExampleTest \o <<":", "443">>,
      <<"api", ".">> \o ExampleTest,
      <<"blocked", ".", "test", ":", "443">>,
      ExampleTest \o <<".", "evil", ".", "com", ":", "443">>,
      ExampleTest \o <<".", "evil", ".", "com">> }

\* Allowlists a proxy is constructed with (the empty one allows everything).
Allowlists == { << >>, <<ExampleTest>>, <<InterrapidisimoCom, ExampleTest>> }

-----------------------------------------------------------------------------
(* The order adapter applied to one upstream payload.                         *)
(*   woo   the payload and the answer of the notes request (the inputs), and, *)
(*         once mapToDomain has run, the tracking list and the status of the  *)
(*         order it built                                                     *)

ShippingLine(metas) == [MetaData |-> metas]

WooStatuses ==
    { <<"completed">>, <<"Completed">>, <<"cancelled">>, <<"REFUNDED">>,
      <<"failed">>, <<"pending">>, <<"processing">>, <<"On-Hold">>,
      <<"shipped">>, <<"trash">>, <<"completed", " ">>, EmptyString }

WooShippingLines ==
    { << >>,
      <<ShippingLine(<<Meta(<<"Tracking Number">>, StringValue(<<"123">>)),
                       Meta(<<"Tracking Company">>, StringValue(<<"DHL">>))>>)>>,
      <<ShippingLine(<<Meta(<<"tracking_company">>, StringValue(<<"DHL">>))>>)>>,
      <<ShippingLine(<<Meta(<<"tracking_number">>, StringValue(EmptyString)),
                       Meta(<<"_tracking_number">>, NumberValue)>>)>>,
      <<ShippingLine(<< >>),
        ShippingLine(<<Meta(<<"_tracking_number">>, StringValue(<<"456">>)),
                       Meta(<<"tracking_number">>, StringValue(<<"123">>))>>)>>,
      <<ShippingLine(<<Meta(<<"method">>, StringValue(<<"flat">>))>>)>> }

WooMetaData ==
    { << >>,
      <<Meta(PluginKey, ArrayValue(<<ItemObject(<<"servientrega">>, <<"123">>)>>))>>,
      <<Meta(PluginKey, ArrayValue(<<ItemObject(EmptyString, EmptyString)>>))>>,
      <<Meta(PluginKey, ArrayValue(<<ItemObject(<<"DHL">>, <<"123">>),
                                     ItemObject(EmptyString, EmptyString)>>))>>,
      <<Meta(PluginKey, StringValue(<<"123">>)),
        Meta(<<"tracking_number">>, StringValue(<<"456">>))>>,
      <<Meta(PluginKey, ArrayValue(<< >>)),
        Meta(<<"tracking_provider">>, StringValue(<<"DHL">>))>>,
      <<Meta(PluginKey, ArrayValue(<<ItemNotObject>>))>>,
      <<Meta(PluginKey, NullValue),
        Meta(<<"wc_shipment_tracking_number">>, NumberValue)>> }

WooPayloads ==
    [Status : WooStatuses, ShippingLines : WooShippingLines, MetaData : WooMetaData]

Note(customerNote, text) == [CustomerNote |-> customerNote, Note |-> text]

\* The answer of the notes request: one that failed (the request itself, a
\* status other than 200, a body that does not decode) or a list of notes.
NotesAnswer(failure, notes) ==
    [ok |-> failure = "none", failure |-> failure, notes |-> notes]

NotesAnswers ==
    { NotesAnswer("network", << >>),
      NotesAnswer("status", << >>),
      NotesAnswer("decode", << >>),
      NotesAnswer("none", << >>),
      NotesAnswer("none",
                  <<Note(TRUE, NoteText(<<"123">>, <<"Servientrega">>))>>),
      [ok |-> TRUE, failure |-> "none",
       notes |-> <<Note(FALSE, NoteText(<<"123">>, <<"DHL">>)),
                   Note(TRUE, NoteText(<<"123">>, EmptyString)),
                   Note(TRUE, NoteText(<<"456">>, <<"DHL">>))>>] }

WooIdle ==
    [pc |-> "off",
     order |-> [Status |-> EmptyString, ShippingLines |-> << >>, MetaData |-> << >>],
     notes |-> NotesAnswer("network", << >>), notesCalls |-> 0,
     tracking |-> << >>, status |-> EmptyString]

-----------------------------------------------------------------------------
(* The Interrapidisimo adapter's mapping of a carrier payload.                *)
(*   inter  the IdEstadoGuia codes of the payload's events (the input), and,  *)
(*          once mapResponseToDomain has run, its result                      *)

TrackingStatusProcessing == <<"PROCESSING">>
TrackingStatusCompleted == <<"COMPLETED">>
TrackingStatusReturn == <<"RETURN">>
TrackingStatusIncidence == <<"INCIDENCE">>

\* Longest list of events in a payload.
MaxEvents == 3

\* IdEstadoGuia values: known transit codes, the three codes that set the
\* global status, and a code the adapter does not know.
InterCodes == {1, 3, 7, 10, 11, 99}

InterPayloads == UNION {[1..n -> InterCodes] : n \in 0..MaxEvents}

\* mapResponseToDomain, the switch on one event's code.
InterStatusAfter(status, code) ==
    IF code = 10 THEN TrackingStatusReturn
    ELSE IF code = 11 THEN TrackingStatusCompleted
    ELSE IF code = 7 THEN TrackingStatusIncidence
    ELSE status

\* mapResponseToDomain, the loop over the events.
RECURSIVE InterGlobalStatus(_, _)
InterGlobalStatus(codes, status) ==
    IF codes = << >> THEN status
    ELSE InterGlobalStatus(Tail(codes), InterStatusAfter(status, Head(codes)))

\* A mapping that takes the global status from the latest event alone.
mapResponseToDomainLatestOnly(codes) ==
    [err |-> NoError,
     GlobalStatus |-> IF codes = << >> THEN TrackingStatusProcessing
                      ELSE InterStatusAfter(TrackingStatusProcessing, codes[Len(codes)]),
     Codes |-> [i \in 1..Len(codes) |-> Itoa(codes[i])]]

\* InterrapidisimoAdapter.mapResponseToDomain: the returned error, the
\* global status and the Code of each event of the history.
mapResponseToDomain(codes) ==
    [err |-> NoError,
     GlobalStatus |-> InterGlobalStatus(codes, TrackingStatusProcessing),
     Codes |-> [i \in 1..Len(codes) |-> Itoa(codes[i])]]

InterIdle ==
    [pc |-> "off", codes |-> << >>, err |-> NoError,
     GlobalStatus |-> EmptyString, Codes |-> << >>]

-----------------------------------------------------------------------------
(* One ForwardingProxy, the tasks that call it, its accept loops and the      *)
(* requests of its clients.                                                   *)
(*   fp       the struct: mu (the task holding the mutex, "free" if none),    *)
(*            running, listener and server (0 for nil), localPort,            *)
(*            upstreamURL, allowedDomains                                     *)
(*   caller   per calling task, the call it is in (op), its position (pc),    *)
(*            what the call found and returned, and the struct fields and the *)
(*            life of the proxy when it took the mutex                        *)
(*   sock     the listeners bound so far: the port of each, which are still   *)
(*            open, the state of the accept loop started for each, and the    *)
(*            servers on which Shutdown has been called                       *)
(*   traffic  the latest client request and what the proxy did with it        *)
(*   hist     calls begun so far, Stop calls begun so far, the life of the    *)
(*            proxy (new, running once a listener is bound, stopped once a    *)
(*            Stop that found it running has returned), and the addresses     *)
(*            Start has returned with a nil error                             *)

Callers == {"c1", "c2"}

\* Calls made on the proxy in one run of the model.
MaxOps == 3

\* Ports the system hands to a listener bound to 127.0.0.1:0.
Ports == {8081, 8082}

\* ForwardingProxy.LocalAddr.
LocalAddr(localPort) == <<"http://127.0.0.1:">> \o Itoa(localPort)

\* NewForwardingProxy.
NewForwardingProxy(upstreamURL, allowedDomains) ==
    [mu |-> "free", running |-> FALSE, listener |-> 0, server |-> 0,
     localPort |-> 0, upstreamURL |-> upstreamURL,
     allowedDomains |-> allowedDomains]

Fields(p) == <<p.running, p.listener, p.server, p.localPort>>

IdleCaller ==
    [pc |-> "idle", op |-> "none", found |-> FALSE, bound |-> 0,
     addr |-> EmptyString, err |-> NoError, val |-> FALSE,
     before |-> Fields(NewForwardingProxy(URL(NoUserinfo), << >>)), lifeBefore |-> "new",
     after |-> Fields(NewForwardingProxy(URL(NoUserinfo), << >>)), openAtReturn |-> FALSE]

NoSockets == [ports |-> << >>, open |-> {}, loop |-> << >>, shut |-> {}]

NoTraffic ==
    [method |-> "none", host |-> EmptyString, upstream |-> "none",
     status |-> 0, verdict |-> "none", dialled |-> FALSE, steps |-> << >>,
     opened |-> FALSE, closed |-> FALSE, wrote |-> NoRequest, err |-> NoError]

NoHistory == [ops |-> 0, stops |-> 0, life |-> "new", startAddrs |-> {}]

ProxyOff ==
    /\ fp = NewForwardingProxy(URL(NoUserinfo), << >>)
    /\ caller = [c \in Callers |-> IdleCaller]
    /\ sock = NoSockets
    /\ traffic = NoTraffic
    /\ hist = NoHistory


-----------------------------------------------------------------------------
(* The three carrier adapters' mapping of an intercepted payload.             *)
(*   mapper  the carrier and the payload (the inputs: estadoActual, whether   *)
(*           Results is empty, and the events with their raw code and date),  *)
(*           and, once mapResponseToDomain has run, the error, the global     *)
(*           status and the history it returned                               *)
(* Of each event the model keeps the code and the date; text and city are     *)
(* copied from the payload field by field and are left out.                   *)

HasPrefix(s, prefix) ==
    /\ Len(prefix) <= Len(s)
    /\ SubSeq(s, 1, Len(prefix)) = prefix

ToUpper(tok) ==
    CASE tok = "entregad" -> "ENTREGAD"
      [] tok = "o" -> "O"
      [] tok = "Devol" -> "DEVOL"
      [] tok = "ucion" -> "UCION"
      [] tok = "novedad" -> "NOVEDAD"
      [] OTHER -> tok

StringsToUpper(s) == [i \in 1..Len(s) |-> ToUpper(s[i])]

\* strings.TrimSpace on the model's alphabet, where " " is the only space.
RECURSIVE TrimLeft(_)
TrimLeft(s) ==
    IF s # << >> /\ Head(s) = " " THEN TrimLeft(Tail(s)) ELSE s

RECURSIVE TrimRight(_)
TrimRight(s) ==
    IF s # << >> /\ s[Len(s)] = " " THEN TrimRight(SubSeq(s, 1, Len(s) - 1)) ELSE s

TrimSpace(s) == TrimRight(TrimLeft(s))

\* A date string is a sequence of tokens: a day, a separator, a time of day
\* and possibly more. The day tokens are written year first or day first, the
\* time tokens with or without seconds.
DayLayout(tok) ==
    CASE tok \in {"2023-12-28", "2025-05-10"} -> "2006-01-02"
      [] tok \in {"31/01/2026"} -> "02/01/2006"
      [] OTHER -> "none"

ClockLayout(tok) ==
    CASE tok \in {"10:50:44", "13:06:23"} -> "15:04:05"
      [] tok \in {"12:51"} -> "15:04"
      [] OTHER -> "none"

\* The instant a day and a time of day denote, in UTC.
Instant(day, clock) ==
    CASE day = "2023-12-28" /\ clock = "10:50:44" -> "2023-12-28T10:50:44Z"
      [] day = "2025-05-10" /\ clock = "13:06:23" -> "2025-05-10T13:06:23Z"
      [] day = "2025-05-10" /\ clock = "10:50:44" -> "2025-05-10T10:50:44Z"
      [] day = "2023-12-28" /\ clock = "13:06:23" -> "2023-12-28T13:06:23Z"
      [] day = "31/01/2026" /\ clock = "12:51" -> "2026-01-31T12:51:00Z"
      [] OTHER -> ZeroTime

\* time.Parse(layout, value) with the error dropped: the instant, or the zero
\* time when the value does not match the layout. A fraction of a second
\* after the seconds is accepted although the layout has none.
TimeParse(dayLayout, separator, clockLayout, value) ==
    IF /\ Len(value) \in {3, 4}
       /\ DayLayout(value[1]) = dayLayout
       /\ value[2] = separator
       /\ ClockLayout(value[3]) = clockLayout
       /\ Len(value) = 4 => (clockLayout = "15:04:05" /\ value[4] = ".02")
    THEN Instant(value[1], value[3])
    ELSE ZeroTime

TrackingEvent(date, code) == [Date |-> date, Code |-> code]

PayloadEvent(code, date) == [code |-> code, date |-> date]

\* A TrackingEvent of which the Text is followed too.
TextEvent(date, text, code) == [Date |-> date, Text |-> text, Code |-> code]

\* An element of movimientos in a Servientrega payload.
Movimiento(idProceso, fecha, movimiento, novedad) ==
    [code |-> idProceso, date |-> fecha, movimiento |-> movimiento,
     Novedad |-> novedad]

\* A switch that takes every code beginning with "6" or "8" for the delivered
\* or the returned one.
CoordStatusAfterByPrefix(status, code) ==
    IF HasPrefix(code, <<"6">>) THEN TrackingStatusCompleted
    ELSE IF HasPrefix(code, <<"8">>) THEN TrackingStatusReturn
    ELSE IF HasPrefix(code, <<"7">>) THEN TrackingStatusIncidence
    ELSE status

\* CoordinadoraAdapter.mapResponseToDomain, the switch on one event's code.
CoordStatusAfter(status, code) ==
    IF code = <<"6">> THEN TrackingStatusCompleted
    ELSE IF code = <<"8">> THEN TrackingStatusReturn
    ELSE IF HasPrefix(code, <<"7">>) THEN TrackingStatusIncidence
    ELSE status

\* CoordinadoraAdapter.mapResponseToDomain, the loop over the events.
RECURSIVE CoordGlobalStatus(_, _)
CoordGlobalStatus(events, status) ==
    IF events = << >> THEN status
    ELSE CoordGlobalStatus(Tail(events), CoordStatusAfter(status, Head(events).code))

\* CoordinadoraAdapter.mapResponseToDomain.
CoordinadoraMapResponseToDomain(resp) ==
    [err |-> NoError,
     GlobalStatus |-> CoordGlobalStatus(resp.events, TrackingStatusProcessing),
     History |-> [i \in 1..Len(resp.events) |->
                    TrackingEvent(TimeParse("2006-01-02", " ", "15:04:05",
                                            resp.events[i].date),
                                  resp.events[i].code)]]

\* mapServientregaStatus.
mapServientregaStatus(estado) ==
    LET e == StringsToUpper(TrimSpace(estado))
    IN  IF Contains(e, "ENTREGAD") THEN TrackingStatusCompleted
        ELSE IF Contains(e, "DEVOL") \/ Contains(e, "RETURN")
             THEN TrackingStatusReturn
        ELSE IF Contains(e, "NOVEDAD") \/ Contains(e, "INCIDENCIA")
             THEN TrackingStatusIncidence
        ELSE TrackingStatusProcessing

\* A mapping that drops the events whose date does not parse.
ServientregaMapResponseDroppingUndated(resp) ==
    IF ~resp.hasResults
    THEN [err |-> <<"no results in response (Code: %d)">>,
          GlobalStatus |-> EmptyString, History |-> << >>]
    ELSE [err |-> NoError,
          GlobalStatus |-> mapServientregaStatus(resp.estadoActual),
          History |->
             SelectSeq([i \in 1..Len(resp.events) |->
                          TextEvent(TimeParse("02/01/2006", " ", "15:04",
                                              TrimSpace(resp.events[i].date)),
                                    resp.events[i].movimiento,
                                    resp.events[i].code)],
                       LAMBDA e : e.Date # ZeroTime)]

\* ServientregaAdapter.mapResponseToDomain: Results[0] of a payload that has
\* results.
ServientregaMapResponseToDomain(resp) ==
    IF ~resp.hasResults
    THEN [err |-> <<"no results in response (Code: %d)">>,
          GlobalStatus |-> EmptyString, History |-> << >>]
    ELSE [err |-> NoError,
          GlobalStatus |-> mapServientregaStatus(resp.estadoActual),
          History |-> [i \in 1..Len(resp.events) |->
                         TextEvent(TimeParse("02/01/2006", " ", "15:04",
                                             TrimSpace(resp.events[i].date)),
                                   resp.events[i].movimiento,
                                   resp.events[i].code)]]

\* InterrapidisimoAdapter.mapResponseToDomain with the dates of the events;
\* the codes of this carrier are integers.
InterrapidisimoMapResponseToDomain(resp) ==
    LET codes == [i \in 1..Len(resp.events) |-> resp.events[i].code]
    IN  [err |-> mapResponseToDomain(codes).err,
         GlobalStatus |-> mapResponseToDomain(codes).GlobalStatus,
         History |-> [i \in 1..Len(resp.events) |->
                        TrackingEvent(TimeParse("2006-01-02", "T", "15:04:05",
                                                resp.events[i].date),
                                      mapResponseToDomain(codes).Codes[i])]]

MapResponse(carrier, resp) ==
    IF carrier = CoordinadoraCo THEN CoordinadoraMapResponseToDomain(resp)
    ELSE IF carrier = ServientregaCo THEN ServientregaMapResponseToDomain(resp)
    ELSE InterrapidisimoMapResponseToDomain(resp)

\* Codes of Coordinadora events: transit, delivered, returned, incidences,
\* codes that merely begin like the delivered or the returned one, an unknown
\* code.
CoordCodes ==
    { <<"3">>, <<"6">>, <<"8">>, <<"7", "0", "1">>, <<"7", "2", "8">>,
      <<"6", "7">>, <<"post_binded">> }

\* A date as Coordinadora writes them, and one it cannot parse.
CoordDates ==
    { <<"2023-12-28", " ", "10:50:44">>, <<"2025-05-10", "T", "13:06:23">> }

\* IdProceso values of Servientrega movements.
ServCodes == { <<"1">>, <<"99">> }

\* Dates as Servientrega writes them (with the trailing space), and one it
\* cannot parse.
ServDates ==
    { <<"31/01/2026", " ", "12:51", " ">>, <<"31/01/2026", " ", "12:51">>,
      <<"2023-12-28", " ", "10:50:44">> }

\* Values of Novedad: none, and one.
ServNovedades == { EmptyString, <<"DIRECCION", " ", "ERRADA">> }

\* The movements of a payload are in a list of at most MaxEvents.
Movimientos ==
    UNION {[1..n -> {Movimiento(c, d, <<"Guia", " ", "generada">>, nv) :
                       c \in ServCodes, d \in ServDates, nv \in ServNovedades}] :
             n \in 0..MaxEvents}

\* Values of estadoActual.
ServEstados ==
    { <<"ENTREGAD", "O">>, <<"ENTREGAD", "O", " ", "A", " ", "REMITENTE">>,
      <<"EN", " ", "PROCESAMIENTO">>, <<" ", "entregad", "o", " ">>,
      <<"Devol", "ucion">>, <<"RETURN", "ED">>, <<"novedad">>,
      <<"INCIDENCIA">>, <<"EN", " ", "REPARTO">>, EmptyString }

\* Dates as Interrapidisimo writes them, with and without a fraction of a
\* second, and one it cannot parse.
InterDates ==
    { <<"2025-05-10", "T", "13:06:23", ".02">>, <<"2025-05-10", "T", "13:06:23">>,
      <<"2023-12-28", " ", "10:50:44">> }

\* IdEstadoGuia values of the events of those payloads.
InterEventCodes == {3, 7, 11}

\* The events of a payload are in a list of at most MaxEvents.
EventLists(codes, dates) ==
    UNION {[1..n -> {PayloadEvent(c, d) : c \in codes, d \in dates}] :
             n \in 0..MaxEvents}

Payload(estadoActual, hasResults, events) ==
    [estadoActual |-> estadoActual, hasResults |-> hasResults, events |-> events]

CoordPayloads ==
    {Payload(EmptyString, TRUE, ev) : ev \in EventLists(CoordCodes, CoordDates)}

\* A payload without results has no events to read.
ServPayloads ==
    {Payload(es, TRUE, ev) : es \in ServEstados, ev \in Movimientos}
    \cup {Payload(EmptyString, FALSE, << >>)}

InterEventPayloads ==
    {Payload(EmptyString, TRUE, ev) : ev \in EventLists(InterEventCodes, InterDates)}

MapperIdle ==
    [pc |-> "off", carrier |-> EmptyString,
     resp |-> Payload(EmptyString, FALSE, << >>),
     err |-> NoError, GlobalStatus |-> EmptyString, History |-> << >>]

-----------------------------------------------------------------------------
(* The GetTrackingHistory calls made on the carrier adapters, one after the   *)
(* other, with the forwarding proxies they construct                          *)
(* and the hijack handlers the browser's requests start.                      *)
(*   scrape  calls begun so far (n); of the current call its position (pc),   *)
(*           the courier, the proxy settings of the adapter, the local        *)
(*           variable proxyForwarder (an index into proxies, 0 for nil),      *)
(*           whether its Stop is deferred, the return path taken, whether the *)
(*           master deadline has fired, the attempts and backoffs of the      *)
(*           navigation loop with whether each began after the deadline, and  *)
(*           the state of each hijack handler task; the ForwardingProxy       *)
(*           instances constructed so far with the call that made each and    *)
(*           the Start                                                        *)
(*           and Stop calls made on it; and the handler tasks of earlier      *)
(*           calls that are still blocked                                     *)

\* Calls made on the adapter in one run of the model.
MaxScrapes == 2

\* Passes of the Servientrega adapter's navigation loop.
maxRetries == 3

\* Times the carrier endpoint is intercepted during one call.
MaxIntercepts == 2

Settings(enabled, hostname, port, username, password) ==
    [Enabled |-> enabled, Hostname |-> hostname, Port |-> port,
     Username |-> username, Password |-> password]

\* Settings.HasProxy.
HasProxy(p) == p.Enabled /\ p.Hostname # EmptyString /\ p.Port > 0

\* Settings.FullURL, for settings that have a proxy.
FullURL(p) ==
    IF p.Username # EmptyString /\ p.Password # EmptyString
    THEN URL(Userinfo(p.Username, p.Password))
    ELSE URL(NoUserinfo)

\* The adapter's test for starting a ForwardingProxy.
UsesForwarder(p) ==
    HasProxy(p) /\ p.Username # EmptyString /\ p.Password # EmptyString

ProxySettings ==
    { Settings(FALSE, EmptyString, 0, EmptyString, EmptyString),
      Settings(TRUE, <<"geo", ".", "proxy">>, 12321, EmptyString, EmptyString),
      Settings(TRUE, <<"geo", ".", "proxy">>, 12321, <<"user">>, <<"pass">>) }

ScrapeCouriers == {ServientregaCo, InterrapidisimoCo, CoordinadoraCo}

\* The allowedDomains each adapter passes to NewForwardingProxy.
AdapterAllowlist(courier) ==
    IF courier = InterrapidisimoCo THEN <<InterrapidisimoCom>> ELSE << >>

\* The domain of each carrier's tracking site.
CarrierDomain(courier) ==
    IF courier = InterrapidisimoCo THEN InterrapidisimoCom
    ELSE <<"servientrega", ".", "com">>

\* Hosts the browser of an adapter call may ask the local proxy for.
BrowserHosts ==
    { <<"mobile", ".", "servientrega", ".", "com", ":", "443">>,
      <<"www3", ".">> \o InterrapidisimoCom \o <<":", "443">>,
      <<"tracker", ".", "test", ":", "443">> }

\* A Stop that is run only when the call succeeds.
StopsOnReturnSuccessOnly(path, deferred) ==
    IF deferred /\ path = "success" THEN 1 ELSE 0

\* Stop calls run when GetTrackingHistory returns: the deferred one, if it
\* was deferred, whatever the return path.
StopsOnReturn(path, deferred) == IF deferred THEN 1 ELSE 0

ScrapeIdle ==
    [n |-> 0, pc |-> "idle", courier |-> EmptyString,
     settings |-> Settings(FALSE, EmptyString, 0, EmptyString, EmptyString),
     proxyForwarder |-> 0, deferred |-> FALSE, path |-> "none",
     expired |-> FALSE, nav |-> << >>,
     handlers |-> [h \in 1..MaxIntercepts |-> "none"],
     proxies |-> << >>, blocked |-> 0]

-----------------------------------------------------------------------------
(* One tracking lookup followed from the HTTP request to the adapter call it  *)
(* triggers, with the clock and the contexts involved.                        *)
(*   lookup  the courier asked for, the seconds elapsed since the adapter     *)
(*           call began (now), whether and when the context of the HTTP       *)
(*           request was cancelled, the context the adapter waits on, and,    *)
(*           once the adapter call has returned, its error and when it came   *)

\* The timeout each adapter puts on its own context.
AdapterTimeoutSeconds == 60

\* A context: whether it is derived from the context of the HTTP request,
\* and its deadline if it has one. context.Background() is neither derived
\* from anything nor limited.
ContextBackground == [followsRequest |-> FALSE, hasDeadline |-> FALSE, deadline |-> 0]

\* context.WithTimeout(parent, seconds), called at time now.
WithTimeout(parent, now, seconds) ==
    [followsRequest |-> parent.followsRequest,
     hasDeadline |-> TRUE,
     deadline |-> IF parent.hasDeadline /\ parent.deadline < now + seconds
                  THEN parent.deadline ELSE now + seconds]

\* ctx.Err(): nil until the context is done.
CtxErr(ctx, now, reqCancelled) ==
    IF ctx.followsRequest /\ reqCancelled THEN <<"context canceled">>
    ELSE IF ctx.hasDeadline /\ now >= ctx.deadline
         THEN <<"context deadline exceeded">>
         ELSE NoError

\* The adapters' GetTrackingHistory: the context they wait on.
AdapterContext(now) == WithTimeout(ContextBackground, now, AdapterTimeoutSeconds)

LookupCouriers == {CoordinadoraCo, ServientregaCo, InterrapidisimoCo}

\* What the hijacked courier response can be.
CourierAnswers == {"history", "unparsable"}

LookupIdle ==
    [pc |-> "idle", courier |-> EmptyString, now |-> 0, reqCancelled |-> FALSE,
     cancelledAt |-> 0, ctx |-> ContextBackground, err |-> NoError,
     hasVal |-> FALSE, returnedAt |-> 0]

-----------------------------------------------------------------------------
(* State.                                                                     *)
(*   cache     the shared cache: the document under each key, NoDoc if absent *)
(*   call      per request task, the call it is serving and what the call did *)
(*   ncalls    requests accepted so far                                       *)
(*             (got, gotData: what the cache Get answered; upstream: what the  *)
(*             provider's source answered; asked: the providers fetched from;  *)
(*             sets, wrote, setOK, stored: the cache Set, its argument, its    *)
(*             success and the entry under the key right after it; prevResp,   *)
(*             prevOpen, prevInCache: lastResp and ttlOpen of the request when *)
(*             the call began, and whether that body was the cached entry)     *)
(*   lastResp  per tracking request, the body of its latest 200 response      *)
(*   ttlOpen   per tracking request, TRUE from a 200 response until the entry *)
(*             under its key next expires                                     *)

OrderKeys ==
    {OrderCacheKey(r[1], r[2]) : r \in {q \in OrderRequests : q[2] # EmptyString}}

TrackingKeys ==
    {TrackingCacheKey(r[1], r[2]) : r \in {q \in TrackingRequests :
                                             q[1] # EmptyString /\ q[2] # EmptyString}}

AllKeys == OrderKeys \cup TrackingKeys

IdleCall ==
    [pc |-> "idle", kind |-> "none", a |-> EmptyString, b |-> EmptyString,
     key |-> EmptyString, got |-> "none", gotData |-> NoDoc, upstream |-> "none",
     from |-> 1, asked |-> << >>, sets |-> 0, wrote |-> NoDoc, setOK |-> FALSE,
     stored |-> NoDoc,
     hasVal |-> FALSE, order |-> ZeroOrder, history |-> ZeroHistory,
     err |-> NoError, status |-> 0, ray |-> EmptyString, respRay |-> EmptyString,
     prevResp |-> NoDoc, prevInCache |-> FALSE, prevOpen |-> FALSE]

\* Entries under tracking keys may be left over in a format that no longer
\* decodes; the order entries are written by the order service alone.
Init ==
    /\ cache \in {c \in [AllKeys -> {NoDoc, GarbageDoc}] :
                    \A k \in OrderKeys : c[k] = NoDoc}
    /\ call = [w \in Workers |-> IdleCall]
    /\ ncalls = 0
    /\ lastResp = [r \in TrackingRequests |-> NoDoc]
    /\ ttlOpen = [r \in TrackingRequests |-> FALSE]
    /\ woo = WooIdle
    /\ inter = InterIdle
    /\ ProxyOff
    /\ lookup = LookupIdle
    /\ mapper = MapperIdle
    /\ scrape = ScrapeIdle

GetOutcome(got) ==
    IF got.err = NoError THEN "ok"
    ELSE IF got.err = <<"key not found">> THEN "notfound"
    ELSE "error"

Free(w) == call[w].pc \in {"idle", "done"} /\ ncalls < MaxCalls

-----------------------------------------------------------------------------
(* GET /orders/{id}?email=... : the handler validates, then                   *)
(* OrderService.GetOrder reads the cache (BeginOrder), asks the provider      *)
(* (FetchOrder) and writes the cache (StoreOrder); each action ends at the    *)
(* next call that leaves the process, or at the response.                     *)

BeginOrder(w, orderID, email) ==
    /\ Free(w)
    /\ ncalls' = ncalls + 1
    /\ UNCHANGED <<cache, lastResp, ttlOpen>>
    /\ LET base == [IdleCall EXCEPT !.kind = "order", !.a = orderID, !.b = email]
       IN  IF orderID = EmptyString \/ email = EmptyString
           THEN call' = [call EXCEPT ![w] = [base EXCEPT !.pc = "done", !.status = 400]]
           ELSE \E fault \in BOOLEAN :
                  LET key == OrderCacheKey(orderID, email)
                      got == CacheGet(cache, key, fault)
                      r == OrderAfterGet(got)
                      seen == [base EXCEPT !.key = key, !.got = GetOutcome(got),
                                           !.gotData = got.data]
                  IN  call' = [call EXCEPT ![w] =
                          IF r.hit
                          THEN [seen EXCEPT !.pc = "done", !.hasVal = TRUE,
                                            !.order = r.order,
                                            !.status = OrderHandlerStatus(NoError)]
                          ELSE [seen EXCEPT !.pc = "fetch"]]

FetchOrder(w) ==
    /\ call[w].pc = "fetch"
    /\ call[w].kind = "order"
    /\ UNCHANGED <<cache, ncalls, lastResp, ttlOpen>>
    /\ \E resp \in UpstreamResponses(call[w].a) :
          LET r == OrderAfterProvider(WooGetOrder(call[w].a, resp), call[w].b)
              asked == [call[w] EXCEPT !.upstream = resp, !.asked = Append(@, 1)]
          IN  call' = [call EXCEPT ![w] =
                  IF r.doSet
                  THEN [asked EXCEPT !.pc = "set", !.hasVal = r.hasOrder,
                                     !.order = r.order, !.err = r.err]
                  ELSE [asked EXCEPT !.pc = "done", !.err = r.err,
                                     !.status = OrderHandlerStatus(r.err)]]

StoreOrder(w) ==
    /\ call[w].pc = "set"
    /\ call[w].kind = "order"
    /\ UNCHANGED <<ncalls, lastResp, ttlOpen>>
    /\ \E fault \in BOOLEAN :
          LET data == MarshalOrder(call[w].order)
              set == CacheSet(cache, call[w].key, data, fault)
              err == IF call[w].err = NoError THEN OrderAfterSet(set.err)
                     ELSE call[w].err
          IN  /\ cache' = set.cache
              /\ call' = [call EXCEPT ![w] =
                     [@ EXCEPT !.pc = "done", !.sets = @ + 1, !.wrote = data,
                               !.setOK = (set.err = NoError),
                               !.stored = set.cache[call[w].key],
                               !.err = err, !.hasVal = (@ /\ err = NoError),
                               !.status = OrderHandlerStatus(err)]]

-----------------------------------------------------------------------------
(* GET /tracking/{number}?courier=... : the handler validates, then           *)
(* TrackingService.GetTrackingHistory reads the cache and selects the         *)
(* provider (BeginTracking), fetches (FetchTracking) and writes the cache     *)
(* (StoreTracking).                                                           *)

Responded(req, history) ==
    /\ lastResp' = [lastResp EXCEPT ![req] = MarshalHistory(history)]
    /\ ttlOpen' = [ttlOpen EXCEPT ![req] = TRUE]

BeginTracking(w, trackingNumber, courier) ==
    /\ Free(w)
    /\ ncalls' = ncalls + 1
    /\ UNCHANGED cache
    /\ LET req == <<trackingNumber, courier>>
           ray == RequestID(ncalls + 1)
           base == [IdleCall EXCEPT !.kind = "tracking", !.a = trackingNumber,
                                    !.b = courier, !.ray = ray]
       IN  IF trackingNumber = EmptyString \/ courier = EmptyString
           THEN /\ call' = [call EXCEPT ![w] =
                      [base EXCEPT !.pc = "done", !.status = 400,
                                   !.respRay = TrackingHandlerRayID(400, ray)]]
                /\ UNCHANGED <<lastResp, ttlOpen>>
           ELSE \E fault \in BOOLEAN :
                  LET key == TrackingCacheKey(trackingNumber, courier)
                      got == CacheGet(cache, key, fault)
                      r == TrackingAfterGet(got)
                      seen == [base EXCEPT !.key = key, !.got = GetOutcome(got),
                                           !.gotData = got.data,
                                           !.prevResp = lastResp[req],
                                           !.prevOpen = ttlOpen[req],
                                           !.prevInCache = (lastResp[req] # NoDoc
                                                            /\ cache[key] = lastResp[req])]
                  IN  IF r.hit
                      THEN /\ call' = [call EXCEPT ![w] =
                                 [seen EXCEPT !.pc = "done", !.hasVal = TRUE,
                                              !.history = r.history,
                                              !.status = TrackingHandlerStatus(NoError),
                                              !.respRay = TrackingHandlerRayID(
                                                  TrackingHandlerStatus(NoError), ray)]]
                           /\ Responded(req, r.history)
                      ELSE /\ call' = [call EXCEPT ![w] =
                                 IF SelectProvider(courier, 1) = 0
                                 THEN [seen EXCEPT !.pc = "done",
                                          !.err = ErrCourierNotSupported,
                                          !.status = TrackingHandlerStatus(ErrCourierNotSupported),
                                          !.respRay = TrackingHandlerRayID(
                                              TrackingHandlerStatus(ErrCourierNotSupported), ray)]
                                 ELSE [seen EXCEPT !.pc = "fetch"]]
                           /\ UNCHANGED <<lastResp, ttlOpen>>

FetchTracking(w) ==
    /\ call[w].pc = "fetch"
    /\ call[w].kind = "tracking"
    /\ UNCHANGED <<cache, ncalls>>
    /\ \E answer \in ProviderAnswers :
          LET i == SelectProvider(call[w].b, call[w].from)
              r == TrackingAfterProvider(ProviderFetch(i, call[w].a, answer))
              asked == [call[w] EXCEPT !.upstream = answer, !.asked = Append(@, i)]
          IN  call' = [call EXCEPT ![w] =
                  IF r.again
                  THEN IF SelectProvider(call[w].b, i + 1) = 0
                       THEN [asked EXCEPT !.pc = "done",
                                !.err = ErrCourierNotSupported,
                                !.status = TrackingHandlerStatus(ErrCourierNotSupported),
                                !.respRay = TrackingHandlerRayID(
                                    TrackingHandlerStatus(ErrCourierNotSupported),
                                    call[w].ray)]
                       ELSE [asked EXCEPT !.from = i + 1]
                  ELSE IF r.doSet
                  THEN [asked EXCEPT !.pc = "set", !.hasVal = r.hasHistory,
                                     !.history = r.history, !.err = r.err]
                  ELSE [asked EXCEPT !.pc = "done", !.err = r.err,
                                     !.hasVal = r.hasHistory, !.history = r.history,
                                     !.status = TrackingHandlerStatus(r.err),
                                     !.respRay = TrackingHandlerRayID(
                                         TrackingHandlerStatus(r.err), call[w].ray)]]
             /\ IF r.err = NoError /\ ~r.doSet /\ ~r.again
                THEN Responded(<<call[w].a, call[w].b>>, r.history)
                ELSE UNCHANGED <<lastResp, ttlOpen>>

StoreTracking(w) ==
    /\ call[w].pc = "set"
    /\ call[w].kind = "tracking"
    /\ UNCHANGED ncalls
    /\ \E fault \in BOOLEAN :
          LET data == MarshalHistory(call[w].history)
              set == CacheSet(cache, call[w].key, data, fault)
              err == IF call[w].err = NoError THEN TrackingAfterSet(set.err)
                     ELSE call[w].err
          IN  /\ cache' = set.cache
              /\ call' = [call EXCEPT ![w] =
                     [@ EXCEPT !.pc = "done", !.sets = @ + 1, !.wrote = data,
                               !.setOK = (set.err = NoError),
                               !.stored = set.cache[call[w].key],
                               !.err = err, !.hasVal = (@ /\ err = NoError),
                               !.status = TrackingHandlerStatus(err),
                               !.respRay = TrackingHandlerRayID(
                                   TrackingHandlerStatus(err), call[w].ray)]]
              /\ IF err = NoError
                 THEN Responded(<<call[w].a, call[w].b>>, call[w].history)
                 ELSE UNCHANGED <<lastResp, ttlOpen>>

\* The TTL of the entry under a key runs out.
Expire(k) ==
    /\ cache[k] # NoDoc
    /\ cache' = [cache EXCEPT ![k] = NoDoc]
    /\ ttlOpen' = [r \in TrackingRequests |->
                     IF r[1] # EmptyString /\ r[2] # EmptyString
                        /\ TrackingCacheKey(r[1], r[2]) = k
                     THEN FALSE ELSE ttlOpen[r]]
    /\ UNCHANGED <<call, ncalls, lastResp>>

Next ==
    \/ \E w \in Workers : \E r \in OrderRequests :
          BeginOrder(w, r[1], r[2]) /\ UNCHANGED outsideServices
    \/ \E w \in Workers : FetchOrder(w) /\ UNCHANGED outsideServices
    \/ \E w \in Workers : StoreOrder(w) /\ UNCHANGED outsideServices
    \/ \E w \in Workers : \E r \in TrackingRequests :
          BeginTracking(w, r[1], r[2]) /\ UNCHANGED outsideServices
    \/ \E w \in Workers : FetchTracking(w) /\ UNCHANGED outsideServices
    \/ \E w \in Workers : StoreTracking(w) /\ UNCHANGED outsideServices
    \/ \E k \in AllKeys : Expire(k) /\ UNCHANGED outsideServices

Spec == Init /\ [][Next]_vars

\* The two services with no request in progress and nothing cached.
ServicesIdle ==
    /\ cache = [k \in AllKeys |-> NoDoc]
    /\ call = [w \in Workers |-> IdleCall]
    /\ ncalls = 0
    /\ lastResp = [r \in TrackingRequests |-> NoDoc]
    /\ ttlOpen = [r \in TrackingRequests |-> FALSE]

-----------------------------------------------------------------------------
(* WooCommerceAdapter.mapToDomain on every payload of WooPayloads.            *)

InitOrderMapping ==
    /\ ServicesIdle
    /\ inter = InterIdle
    /\ ProxyOff
    /\ lookup = LookupIdle
    /\ mapper = MapperIdle
    /\ scrape = ScrapeIdle
    /\ woo \in {[WooIdle EXCEPT !.pc = "input", !.order = o, !.notes = n] :
                   o \in WooPayloads, n \in NotesAnswers}

BuildOrder ==
    /\ woo.pc = "input"
    /\ LET tracking == extractTrackingInfo(woo.order, woo.notes)
       IN  woo' = [woo EXCEPT !.pc = "mapped", !.tracking = tracking,
                              !.notesCalls = NotesRequests(woo.order),
                              !.status = mapStatus(woo.order.Status, tracking)]
    /\ UNCHANGED <<serviceVars, inter, proxyVars, lookup, mapper, scrape>>

NextOrderMapping == BuildOrder

SpecOrderMapping == InitOrderMapping /\ [][NextOrderMapping]_vars

-----------------------------------------------------------------------------
(* InterrapidisimoAdapter.mapResponseToDomain on every payload of             *)
(* InterPayloads.                                                             *)

InitInter ==
    /\ ServicesIdle
    /\ woo = WooIdle
    /\ ProxyOff
    /\ lookup = LookupIdle
    /\ mapper = MapperIdle
    /\ scrape = ScrapeIdle
    /\ inter \in {[InterIdle EXCEPT !.pc = "input", !.codes = c] : c \in InterPayloads}

MapInterResponse ==
    /\ inter.pc = "input"
    /\ LET r == mapResponseToDomain(inter.codes)
       IN  inter' = [inter EXCEPT !.pc = "mapped", !.err = r.err,
                                  !.GlobalStatus = r.GlobalStatus, !.Codes = r.Codes]
    /\ UNCHANGED <<serviceVars, woo, proxyVars, lookup, mapper, scrape>>

NextInter == MapInterResponse

SpecInter == InitInter /\ [][NextInter]_vars

-----------------------------------------------------------------------------
(* ForwardingProxy: Start, Stop and IsRunning called by concurrent tasks, the *)
(* accept loop in the background, and client requests.                        *)

InitProxy ==
    /\ ServicesIdle
    /\ woo = WooIdle
    /\ inter = InterIdle
    /\ fp = NewForwardingProxy(URL(NoUserinfo), <<InterrapidisimoCom>>)
    /\ caller = [c \in Callers |-> IdleCaller]
    /\ sock = NoSockets
    /\ traffic = NoTraffic
    /\ hist = NoHistory
    /\ lookup = LookupIdle
    /\ mapper = MapperIdle
    /\ scrape = ScrapeIdle

\* The call returns: the deferred Unlock runs and the task has its results.
Return(c, p, addr, err, val, s) ==
    /\ fp' = [p EXCEPT !.mu = "free"]
    /\ caller' = [caller EXCEPT ![c] =
           [@ EXCEPT !.pc = "done", !.addr = addr, !.err = err, !.val = val,
                     !.after = Fields(p),
                     !.openAtReturn = (p.listener \in s.open)]]

\* A task calls Start, Stop or IsRunning and arrives at fp.mu.Lock().
Call(c, op) ==
    /\ caller[c].pc \in {"idle", "done"}
    /\ hist.ops < MaxOps
    /\ caller' = [caller EXCEPT ![c] = [IdleCaller EXCEPT !.pc = "lock", !.op = op]]
    /\ hist' = [hist EXCEPT !.ops = @ + 1,
                            !.stops = IF op = "stop" THEN @ + 1 ELSE @]
    /\ UNCHANGED <<fp, sock, traffic>>

\* A Start that goes on to bind although the proxy is running.
StartReturnsEarlyNever(running) == FALSE

\* Start: if fp.running { return fp.LocalAddr(), nil }
StartReturnsEarly(running) == running

\* Start takes the mutex, and returns the address if the proxy is running;
\* otherwise it builds the handlers and goes on to net.Listen, the mutex held.
StartLocked(c) ==
    /\ caller[c].pc = "lock" /\ caller[c].op = "start"
    /\ fp.mu = "free"
    /\ UNCHANGED <<sock, traffic>>
    /\ IF StartReturnsEarly(fp.running)
       THEN /\ fp' = fp
            /\ caller' = [caller EXCEPT ![c] =
                   [@ EXCEPT !.pc = "done", !.found = TRUE,
                             !.before = Fields(fp), !.lifeBefore = hist.life,
                             !.after = Fields(fp),
                             !.addr = LocalAddr(fp.localPort),
                             !.openAtReturn = (fp.listener \in sock.open)]]
            /\ hist' = [hist EXCEPT !.startAddrs = @ \cup {LocalAddr(fp.localPort)}]
       ELSE /\ fp' = [fp EXCEPT !.mu = c]
            /\ caller' = [caller EXCEPT ![c] =
                   [@ EXCEPT !.pc = "listen", !.before = Fields(fp),
                             !.lifeBefore = hist.life]]
            /\ UNCHANGED hist

\* net.Listen answers. On an error Start returns it. Otherwise Start records
\* the listener, its port and a new server, starts the accept loop in the
\* background, sets running and goes to sleep, the mutex held.
StartListened(c) ==
    /\ caller[c].pc = "listen"
    /\ UNCHANGED traffic
    /\ \/ /\ Return(c, fp, EmptyString, <<"failed to find available port">>,
                    FALSE, sock)
          /\ UNCHANGED <<sock, hist>>
       \/ \E port \in Ports :
            LET id == Len(sock.ports) + 1
            IN  /\ \A i \in sock.open : sock.ports[i] # port
                /\ fp' = [fp EXCEPT !.listener = id, !.localPort = port,
                                    !.server = id, !.running = TRUE]
                /\ sock' = [sock EXCEPT !.ports = Append(@, port),
                                        !.open = @ \cup {id},
                                        !.loop = Append(@, "spawned")]
                /\ caller' = [caller EXCEPT ![c] =
                       [@ EXCEPT !.pc = "sleep", !.bound = id]]
                /\ hist' = [hist EXCEPT !.life = "running"]

\* The sleep of Start ends and Start returns the address.
StartWoke(c) ==
    /\ caller[c].pc = "sleep"
    /\ Return(c, fp, LocalAddr(fp.localPort), NoError, FALSE, sock)
    /\ hist' = [hist EXCEPT !.startAddrs = @ \cup {LocalAddr(fp.localPort)}]
    /\ UNCHANGED <<sock, traffic>>

\* server.Shutdown begins: the server is marked as shutting down and closes
\* the listeners its Serve calls have registered.
ShutdownBegins(s, server) ==
    [s EXCEPT !.shut = @ \cup {server},
              !.open = IF s.loop[server] = "serving" THEN @ \ {server} ELSE @]

\* Stop takes the mutex, and returns nil if the proxy is not running;
\* otherwise it calls server.Shutdown and waits for it, the mutex held.
StopLocked(c) ==
    /\ caller[c].pc = "lock" /\ caller[c].op = "stop"
    /\ fp.mu = "free"
    /\ UNCHANGED <<traffic, hist>>
    /\ IF ~fp.running
       THEN /\ fp' = fp
            /\ sock' = sock
            /\ caller' = [caller EXCEPT ![c] =
                   [@ EXCEPT !.pc = "done", !.before = Fields(fp),
                             !.lifeBefore = hist.life, !.after = Fields(fp),
                             !.openAtReturn = (fp.listener \in sock.open)]]
       ELSE /\ fp' = [fp EXCEPT !.mu = c]
            /\ sock' = ShutdownBegins(sock, fp.server)
            /\ caller' = [caller EXCEPT ![c] =
                   [@ EXCEPT !.pc = "shutdown", !.found = TRUE,
                             !.before = Fields(fp), !.lifeBefore = hist.life]]

\* server.Shutdown returns: nil once no connection is active, and then Stop
\* clears running; or, when connections of a server that has served outlast
\* the grace period, the context's error, and then Stop closes the listener
\* and returns the error.
StopShutdownReturned(c) ==
    /\ caller[c].pc = "shutdown"
    /\ UNCHANGED traffic
    /\ hist' = [hist EXCEPT !.life = "stopped"]
    /\ \/ /\ Return(c, [fp EXCEPT !.running = FALSE], EmptyString, NoError,
                    FALSE, sock)
          /\ UNCHANGED sock
       \/ /\ sock.loop[fp.server] # "spawned"
          /\ LET closed == [sock EXCEPT !.open = @ \ {fp.listener}]
             IN  /\ sock' = closed
                 /\ Return(c, fp, EmptyString, <<"context deadline exceeded">>,
                           FALSE, closed)

\* IsRunning.
IsRunning(c) ==
    /\ caller[c].pc = "lock" /\ caller[c].op = "isrunning"
    /\ fp.mu = "free"
    /\ fp' = fp
    /\ caller' = [caller EXCEPT ![c] =
           [@ EXCEPT !.pc = "done", !.val = fp.running, !.before = Fields(fp),
                     !.lifeBefore = hist.life, !.after = Fields(fp),
                     !.openAtReturn = (fp.listener \in sock.open)]]
    /\ UNCHANGED <<sock, traffic, hist>>

\* The background task of Start runs server.Serve(listener): Serve registers
\* the listener and accepts from it, unless Shutdown has already been called,
\* in which case it closes the listener and returns ErrServerClosed.
Serve(i) ==
    /\ i \in 1..Len(sock.loop)
    /\ sock.loop[i] = "spawned"
    /\ sock' = IF i \in sock.shut
               THEN [sock EXCEPT !.loop[i] = "ended", !.open = @ \ {i}]
               ELSE [sock EXCEPT !.loop[i] = "serving"]
    /\ UNCHANGED <<fp, caller, traffic, hist>>

\* Accept fails on the closed listener and Serve returns.
ServeReturned(i) ==
    /\ i \in 1..Len(sock.loop)
    /\ sock.loop[i] = "serving"
    /\ i \notin sock.open
    /\ sock' = [sock EXCEPT !.loop[i] = "ended"]
    /\ UNCHANGED <<fp, caller, traffic, hist>>

\* A client connects to an open listener whose accept loop is serving and
\* sends a plain HTTP request or a CONNECT.
ClientRequest(i, method, host) ==
    /\ i \in sock.open
    /\ sock.loop[i] = "serving"
    /\ \E upstream \in UpstreamOutcomes :
          LET auth == ProxyAuth(fp.upstreamURL)
              r == IF method = "CONNECT"
                   THEN HandleConnect(fp.allowedDomains, auth, host, upstream)
                   ELSE HandleHTTP(fp.allowedDomains, auth, host, upstream)
          IN  traffic' = [method |-> method, host |-> host, upstream |-> upstream,
                          status |-> r.status, verdict |-> r.verdict,
                          dialled |-> r.dialled, steps |-> r.steps,
                          opened |-> r.opened, closed |-> r.closed,
                          wrote |-> r.wrote, err |-> r.err]
    /\ UNCHANGED <<fp, caller, sock, hist>>

NextProxy ==
    \/ \E c \in Callers : \E op \in {"start", "stop", "isrunning"} :
          Call(c, op) /\ UNCHANGED <<serviceVars, woo, inter, lookup, mapper, scrape>>
    \/ \E c \in Callers : StartLocked(c) /\ UNCHANGED <<serviceVars, woo, inter, lookup, mapper, scrape>>
    \/ \E c \in Callers : StartListened(c) /\ UNCHANGED <<serviceVars, woo, inter, lookup, mapper, scrape>>
    \/ \E c \in Callers : StartWoke(c) /\ UNCHANGED <<serviceVars, woo, inter, lookup, mapper, scrape>>
    \/ \E c \in Callers : StopLocked(c) /\ UNCHANGED <<serviceVars, woo, inter, lookup, mapper, scrape>>
    \/ \E c \in Callers : StopShutdownReturned(c)
          /\ UNCHANGED <<serviceVars, woo, inter, lookup, mapper, scrape>>
    \/ \E c \in Callers : IsRunning(c) /\ UNCHANGED <<serviceVars, woo, inter, lookup, mapper, scrape>>
    \/ \E i \in 1..MaxOps : Serve(i) /\ UNCHANGED <<serviceVars, woo, inter, lookup, mapper, scrape>>
    \/ \E i \in 1..MaxOps : ServeReturned(i) /\ UNCHANGED <<serviceVars, woo, inter, lookup, mapper, scrape>>

SpecProxy == InitProxy /\ [][NextProxy]_vars

-----------------------------------------------------------------------------
(* ForwardingProxy with an allowlist: one task starts and stops it while      *)
(* clients send requests through it.                                          *)

Owner == "c1"

InitAllowlist ==
    /\ ServicesIdle
    /\ woo = WooIdle
    /\ inter = InterIdle
    /\ fp \in {NewForwardingProxy(u, a) : u \in UpstreamURLs, a \in Allowlists}
    /\ caller = [c \in Callers |-> IdleCaller]
    /\ sock = NoSockets
    /\ traffic = NoTraffic
    /\ hist = NoHistory
    /\ lookup = LookupIdle
    /\ mapper = MapperIdle
    /\ scrape = ScrapeIdle

NextAllowlist ==
    \/ \E op \in {"start", "stop"} :
          Call(Owner, op) /\ UNCHANGED <<serviceVars, woo, inter, lookup, mapper, scrape>>
    \/ StartLocked(Owner) /\ UNCHANGED <<serviceVars, woo, inter, lookup, mapper, scrape>>
    \/ StartListened(Owner) /\ UNCHANGED <<serviceVars, woo, inter, lookup, mapper, scrape>>
    \/ StartWoke(Owner) /\ UNCHANGED <<serviceVars, woo, inter, lookup, mapper, scrape>>
    \/ StopLocked(Owner) /\ UNCHANGED <<serviceVars, woo, inter, lookup, mapper, scrape>>
    \/ StopShutdownReturned(Owner) /\ UNCHANGED <<serviceVars, woo, inter, lookup, mapper, scrape>>
    \/ \E i \in 1..MaxOps : Serve(i) /\ UNCHANGED <<serviceVars, woo, inter, lookup, mapper, scrape>>
    \/ \E i \in 1..MaxOps : ServeReturned(i) /\ UNCHANGED <<serviceVars, woo, inter, lookup, mapper, scrape>>
    \/ \E i \in 1..MaxOps : \E method \in {"GET", "CONNECT"} :
          \E host \in Destinations :
             ClientRequest(i, method, host)
                /\ UNCHANGED <<serviceVars, woo, inter, lookup, mapper, scrape>>

SpecAllowlist == InitAllowlist /\ [][NextAllowlist]_vars

-----------------------------------------------------------------------------
(* One GET /tracking request whose lookup reaches an adapter, the client that *)
(* may cancel the request, the clock and the courier's answer.                *)

InitLookup ==
    /\ ServicesIdle
    /\ woo = WooIdle
    /\ inter = InterIdle
    /\ ProxyOff
    /\ lookup = LookupIdle
    /\ mapper = MapperIdle
    /\ scrape = ScrapeIdle

\* The handler calls the service, the service finds the provider of the
\* courier and calls its GetTrackingHistory, which creates its context.
BeginLookup(courier) ==
    /\ lookup.pc = "idle"
    /\ lookup' = [lookup EXCEPT !.pc = "inflight", !.courier = courier,
                                !.ctx = AdapterContext(lookup.now)]
    /\ UNCHANGED <<serviceVars, woo, inter, proxyVars, mapper, scrape>>

\* The context of the HTTP request is cancelled while the adapter call is in
\* flight.
CancelRequest ==
    /\ lookup.pc = "inflight"
    /\ ~lookup.reqCancelled
    /\ lookup' = [lookup EXCEPT !.reqCancelled = TRUE, !.cancelledAt = lookup.now]
    /\ UNCHANGED <<serviceVars, woo, inter, proxyVars, mapper, scrape>>

\* A second passes while the adapter waits in its select.
Tick ==
    /\ lookup.pc = "inflight"
    /\ lookup.now < AdapterTimeoutSeconds
    /\ lookup' = [lookup EXCEPT !.now = @ + 1]
    /\ UNCHANGED <<serviceVars, woo, inter, proxyVars, mapper, scrape>>

\* The select of the adapter receives the courier's response on done.
CourierAnswered(answer) ==
    /\ lookup.pc = "inflight"
    /\ lookup' = [lookup EXCEPT
           !.pc = "returned", !.returnedAt = lookup.now,
           !.hasVal = (answer = "history"),
           !.err = IF answer = "history" THEN NoError
                   ELSE <<"failed to parse courier response", "json">>]
    /\ UNCHANGED <<serviceVars, woo, inter, proxyVars, mapper, scrape>>

\* The select of the adapter receives from ctx.Done(). The Servientrega
\* adapter reports a failed navigation instead of the context's error.
ContextDone(navFailed) ==
    /\ lookup.pc = "inflight"
    /\ CtxErr(lookup.ctx, lookup.now, lookup.reqCancelled) # NoError
    /\ navFailed => lookup.courier = ServientregaCo
    /\ lookup' = [lookup EXCEPT
           !.pc = "returned", !.returnedAt = lookup.now, !.hasVal = FALSE,
           !.err = IF navFailed
                   THEN <<"navigation failed after retries", "navErr">>
                   ELSE <<"timeout waiting for courier response">>
                        \o CtxErr(lookup.ctx, lookup.now, lookup.reqCancelled)]
    /\ UNCHANGED <<serviceVars, woo, inter, proxyVars, mapper, scrape>>

NextLookup ==
    \/ \E courier \in LookupCouriers : BeginLookup(courier)
    \/ CancelRequest
    \/ Tick
    \/ \E answer \in CourierAnswers : CourierAnswered(answer)
    \/ \E navFailed \in BOOLEAN : ContextDone(navFailed)

SpecLookup == InitLookup /\ [][NextLookup]_vars

-----------------------------------------------------------------------------
(* mapResponseToDomain of each carrier adapter on every payload of its        *)
(* payload set.                                                               *)

InitMappers ==
    /\ ServicesIdle
    /\ woo = WooIdle
    /\ inter = InterIdle
    /\ ProxyOff
    /\ lookup = LookupIdle
    /\ \/ \E r \in CoordPayloads :
             mapper = [MapperIdle EXCEPT !.pc = "input", !.carrier = CoordinadoraCo,
                                         !.resp = r]
       \/ \E r \in ServPayloads :
             mapper = [MapperIdle EXCEPT !.pc = "input", !.carrier = ServientregaCo,
                                         !.resp = r]
       \/ \E r \in InterEventPayloads :
             mapper = [MapperIdle EXCEPT !.pc = "input",
                                         !.carrier = InterrapidisimoCo, !.resp = r]
    /\ scrape = ScrapeIdle

MapPayload ==
    /\ mapper.pc = "input"
    /\ LET r == MapResponse(mapper.carrier, mapper.resp)
       IN  mapper' = [mapper EXCEPT !.pc = "mapped", !.err = r.err,
                                   !.GlobalStatus = r.GlobalStatus,
                                   !.History = r.History]
    /\ UNCHANGED <<serviceVars, woo, inter, proxyVars, lookup, scrape>>

NextMappers == MapPayload

SpecMappers == InitMappers /\ [][NextMappers]_vars

-----------------------------------------------------------------------------
(* GetTrackingHistory of the three carrier adapters: the main task, the       *)
(* ForwardingProxy it starts and the hijack handler tasks.                    *)

InitScrape ==
    /\ ServicesIdle
    /\ woo = WooIdle
    /\ inter = InterIdle
    /\ ProxyOff
    /\ lookup = LookupIdle
    /\ mapper = MapperIdle
    /\ scrape = ScrapeIdle

ScrapeFrame == UNCHANGED <<serviceVars, woo, inter, proxyVars, lookup, mapper>>

\* GetTrackingHistory returns by the given path: its deferred calls run.
ScrapeReturn(s, path) ==
    [s EXCEPT
       !.pc = "returned", !.path = path,
       !.proxies = IF s.proxyForwarder = 0 THEN @
                   ELSE [@ EXCEPT ![s.proxyForwarder].stops =
                            @ + StopsOnReturn(path, s.deferred)]]

\* A Must call of the browser library fails: it panics, the deferred calls
\* run while the panic unwinds GetTrackingHistory, and nothing recovers it.
ScrapePanic(s) == [ScrapeReturn(s, "panic") EXCEPT !.pc = "panicked"]

\* How a failing browser step ends the call: the Servientrega adapter tests
\* the error each step returns, the other two call the Must variants.
StepFails(s, path) ==
    IF s.courier = ServientregaCo THEN ScrapeReturn(s, path) ELSE ScrapePanic(s)

\* The position of a call when it begins.
FirstStep(courier) ==
    IF courier = ServientregaCo THEN "precheck"
    ELSE IF courier = InterrapidisimoCo THEN "proxy" ELSE "launch"

\* The position of a call once its hijack is registered and the router runs.
AfterHijack(courier) ==
    IF courier = ServientregaCo THEN "navigate"
    ELSE IF courier = InterrapidisimoCo THEN "interact" ELSE "wait"

\* Navigation attempts made so far in the call.
Attempts(s) == Cardinality({k \in 1..Len(s.nav) : s.nav[k].step = "attempt"})

\* A call begins, once the handler tasks of the call before have either
\* ended or are blocked for good. The Coordinadora adapter holds no Settings.
BeginScrape(courier, settings) ==
    /\ scrape.pc \in {"idle", "returned"}
    /\ scrape.n < MaxScrapes
    /\ \A h \in 1..MaxIntercepts : scrape.handlers[h] # "load"
    /\ courier = CoordinadoraCo => ~settings.Enabled
    /\ scrape' = [scrape EXCEPT
          !.n = @ + 1,
          !.pc = FirstStep(courier),
          !.courier = courier, !.settings = settings,
          !.proxyForwarder = 0, !.deferred = FALSE, !.path = "none",
          !.expired = FALSE, !.nav = << >>,
          !.handlers = [h \in 1..MaxIntercepts |-> "none"],
          !.blocked = @ + Cardinality({h \in 1..MaxIntercepts :
                                         scrape.handlers[h] = "send"})]
    /\ ScrapeFrame

\* The timer of the call's master context fires.
DeadlineFires ==
    /\ scrape.pc \notin {"idle", "returned", "panicked"}
    /\ ~scrape.expired
    /\ scrape' = [scrape EXCEPT !.expired = TRUE]
    /\ ScrapeFrame

\* The connectivity check of the Servientrega adapter, made under the
\* master context.
CheckConnectivity(ok) ==
    /\ scrape.pc = "precheck"
    /\ ok => ~scrape.expired
    /\ scrape' = IF ok THEN [scrape EXCEPT !.pc = "proxy"]
                 ELSE ScrapeReturn(scrape, "connectivity")
    /\ ScrapeFrame

\* With proxy credentials the adapter constructs a ForwardingProxy and
\* starts it; when Start succeeds it defers Stop, when Start fails it
\* returns. Without them it goes on without a forwarder.
StartForwarder(startOK) ==
    /\ scrape.pc = "proxy"
    /\ IF UsesForwarder(scrape.settings)
       THEN LET id == Len(scrape.proxies) + 1
                made == [call |-> scrape.n, courier |-> scrape.courier,
                         fp |-> NewForwardingProxy(FullURL(scrape.settings),
                                                   AdapterAllowlist(scrape.courier)),
                         starts |-> 1, started |-> startOK, stops |-> 0]
                s == [scrape EXCEPT !.proxies = Append(@, made),
                                    !.proxyForwarder = id]
            IN  scrape' = IF startOK
                          THEN [s EXCEPT !.pc = "launch", !.deferred = TRUE]
                          ELSE ScrapeReturn(s, "start")
       ELSE /\ startOK
            /\ scrape' = [scrape EXCEPT !.pc = "launch"]
    /\ ScrapeFrame

\* The browser is launched and connected, both under the master context; a
\* failure of either is returned as an error by all three adapters.
LaunchBrowser(ok) ==
    /\ scrape.pc = "launch"
    /\ ok => ~scrape.expired
    /\ scrape' = IF ok THEN [scrape EXCEPT !.pc = "page"]
                 ELSE ScrapeReturn(scrape, "launch")
    /\ ScrapeFrame

\* The page is opened (and, by the Interrapidisimo adapter, its input field
\* awaited).
OpenPage(ok) ==
    /\ scrape.pc = "page"
    /\ ok => ~scrape.expired
    /\ scrape' = IF ok THEN [scrape EXCEPT !.pc = "hijack"]
                 ELSE StepFails(scrape, "page")
    /\ ScrapeFrame

\* The hijack handler is registered and the router set running.
AddHijack(ok) ==
    /\ scrape.pc = "hijack"
    /\ ok => ~scrape.expired
    /\ scrape' = IF ok THEN [scrape EXCEPT !.pc = AfterHijack(scrape.courier)]
                 ELSE StepFails(scrape, "hijack")
    /\ ScrapeFrame

\* The Interrapidisimo adapter types the tracking number and clicks.
Interact(ok) ==
    /\ scrape.pc = "interact"
    /\ ok => ~scrape.expired
    /\ scrape' = IF ok THEN [scrape EXCEPT !.pc = "wait"]
                 ELSE StepFails(scrape, "interact")
    /\ ScrapeFrame

\* One pass of the Servientrega adapter's navigation loop up to the test of
\* navErr: page.Navigate under the master context.
Navigate(ok) ==
    /\ scrape.pc = "navigate"
    /\ ok => ~scrape.expired
    /\ scrape' = [scrape EXCEPT
          !.nav = Append(@, [step |-> "attempt", ok |-> ok,
                             late |-> scrape.expired]),
          !.pc = IF ok THEN "wait" ELSE "backoff"]
    /\ ScrapeFrame

\* The rest of a pass whose attempt failed: time.Sleep, then the loop test.
Backoff ==
    /\ scrape.pc = "backoff"
    /\ scrape' = [scrape EXCEPT
          !.nav = Append(@, [step |-> "sleep", ok |-> TRUE,
                             late |-> scrape.expired]),
          !.pc = IF Attempts(scrape) < maxRetries THEN "navigate" ELSE "wait"]
    /\ ScrapeFrame

\* The hijack is in place and the page has been made to load.
Hijacking(s) ==
    \/ s.pc = "wait"
    \/ s.pc \in {"navigate", "backoff"} /\ Attempts(s) > 0

\* The page requests the carrier endpoint and the router starts a handler
\* task for it.
Intercept(h) ==
    /\ Hijacking(scrape)
    /\ scrape.handlers[h] = "none"
    /\ \A g \in 1..(h - 1) : scrape.handlers[g] # "none"
    /\ scrape' = [scrape EXCEPT !.handlers[h] = "load"]
    /\ ScrapeFrame

\* LoadResponse of a handler returns: on an error the handler returns, else
\* it arrives at the send on the channel done.
HandlerLoaded(h, ok) ==
    /\ scrape.handlers[h] = "load"
    /\ scrape' = [scrape EXCEPT !.handlers[h] = IF ok THEN "send" ELSE "ended"]
    /\ ScrapeFrame

\* The main task, waiting in its select, receives the body a handler sends
\* on the unbuffered channel, and returns what it makes of the body.
ReceiveBody(h, path) ==
    /\ scrape.pc = "wait"
    /\ scrape.handlers[h] = "send"
    /\ scrape' = ScrapeReturn([scrape EXCEPT !.handlers[h] = "ended"], path)
    /\ ScrapeFrame

\* The error of the ctx.Done() case: the Servientrega adapter reports the
\* navigation error when the last attempt left one.
DeadlinePath(s) ==
    IF Len(s.nav) > 0 /\ s.nav[Len(s.nav)].step = "sleep"
    THEN "navigation" ELSE "timeout"

\* A select that takes the ctx.Done() case whether or not the context is done.
ScrapeDeadlineUnfired ==
    /\ scrape.pc = "wait"
    /\ scrape' = ScrapeReturn(scrape, DeadlinePath(scrape))
    /\ ScrapeFrame

\* The select of the main task receives from ctx.Done().
ScrapeDeadline ==
    /\ scrape.pc = "wait"
    /\ scrape.expired
    /\ scrape' = ScrapeReturn(scrape, DeadlinePath(scrape))
    /\ ScrapeFrame

NextScrape ==
    \/ \E courier \in ScrapeCouriers : \E settings \in ProxySettings :
          BeginScrape(courier, settings)
    \/ DeadlineFires
    \/ \E ok \in BOOLEAN : CheckConnectivity(ok)
    \/ \E startOK \in BOOLEAN : StartForwarder(startOK)
    \/ \E ok \in BOOLEAN : LaunchBrowser(ok)
    \/ \E ok \in BOOLEAN : OpenPage(ok)
    \/ \E ok \in BOOLEAN : AddHijack(ok)
    \/ \E ok \in BOOLEAN : Interact(ok)
    \/ \E ok \in BOOLEAN : Navigate(ok)
    \/ Backoff
    \/ \E h \in 1..MaxIntercepts : Intercept(h)
    \/ \E h \in 1..MaxIntercepts : \E ok \in BOOLEAN : HandlerLoaded(h, ok)
    \/ \E h \in 1..MaxIntercepts : \E path \in {"success", "parse", "courier"} :
          ReceiveBody(h, path)
    \/ ScrapeDeadline

SpecScrape == InitScrape /\ [][NextScrape]_vars

\* The timer of the master context fires in the end, and a select with a
\* ready case takes one.
FairScrape == SpecScrape /\ WF_vars(DeadlineFires) /\ WF_vars(ScrapeDeadline)

-----------------------------------------------------------------------------
(* Claims.                                                                    *)

OrderCalls == {w \in Workers : call[w].kind = "order" /\ call[w].status # 400}

TrackingCalls == {w \in Workers : call[w].kind = "tracking" /\ call[w].status # 400}

WrongEmail(c) ==
    /\ c.a \in DOMAIN WooOrders
    /\ ~EqualFold(WooOrders[c.a].email, c.b)

\* C1: a GetOrder(id, e) call whose e differs, case-insensitively, from the
\* email of the upstream order id never holds or returns order data, always
\* asks the provider, and once it has returned its error is ErrEmailMismatch
\* whenever the upstream answered with the order; this is so whatever earlier
\* or concurrent calls with the correct email have put in the cache.
C1_WrongEmailRevealsNothing ==
    \A w \in OrderCalls :
        LET c == call[w]
        IN  WrongEmail(c) =>
              /\ ~c.hasVal
              /\ c.order = ZeroOrder
              /\ c.pc \in {"fetch", "done"}
              /\ c.pc = "done" =>
                    /\ c.err # NoError
                    /\ c.asked = <<1>>
                    /\ c.upstream = "200" => c.err = ErrEmailMismatch

\* A wrong-email call has ended in ErrEmailMismatch while the entry of the
\* correct email for the same order is in the cache.
C1_Witness ==
    \E w \in OrderCalls :
        /\ call[w].pc = "done"
        /\ call[w].a = OrderID1
        /\ call[w].b = EmailOther
        /\ call[w].err = ErrEmailMismatch
        /\ cache[OrderCacheKey(OrderID1, EmailLower)] # NoDoc

\* C2: a GetOrder call that ends with ErrEmailMismatch has made no cache Set,
\* and no entry exists under the key of its order id and email.
C2_MismatchWritesNothing ==
    \A w \in OrderCalls :
        LET c == call[w]
        IN  (c.pc = "done" /\ c.err = ErrEmailMismatch) =>
              /\ c.sets = 0
              /\ c.wrote = NoDoc
              /\ c.stored = NoDoc
              /\ cache[c.key] = NoDoc

\* A call ended with ErrEmailMismatch after the provider returned the order.
C2_Witness ==
    \E w \in OrderCalls :
        /\ call[w].pc = "done"
        /\ call[w].err = ErrEmailMismatch
        /\ call[w].upstream = "200"
        /\ call[w].got = "notfound"

DecodableHit(c) == c.got = "ok" /\ UnmarshalHistory(c.gotData).ok

\* C3: a GetTrackingHistory call whose cache Get answers with an entry that
\* decodes returns the decoded entry with a nil error, at once, and makes no
\* provider fetch and no cache Set.
C3_HitServedFromCache ==
    \A w \in TrackingCalls :
        LET c == call[w]
        IN  DecodableHit(c) =>
              /\ c.pc = "done"
              /\ c.hasVal
              /\ c.history = UnmarshalHistory(c.gotData).val
              /\ c.err = NoError
              /\ c.asked = << >>
              /\ c.sets = 0
              /\ c.wrote = NoDoc

\* A second request, after a 200 response to the same request and before the
\* entry expired, was served from the cache.
C3_Witness ==
    \E w \in TrackingCalls :
        /\ DecodableHit(call[w])
        /\ call[w].pc = "done"
        /\ call[w].prevResp # NoDoc
        /\ call[w].prevOpen
        /\ call[w].b = ServientregaCo

Succeeded(c) == c.pc = "done" /\ c.err = NoError

Body(c) == MarshalHistory(c.history)

ProviderSucceeded(c) ==
    \/ /\ c.kind = "order"
       /\ c.upstream = "200"
       /\ EqualFold(WooOrders[c.a].email, c.b)
    \/ /\ c.kind = "tracking"
       /\ c.upstream \in {"transit", "delivered"}

Provided(c) ==
    IF c.kind = "order"
    THEN c.order = mapToDomain(WooOrders[c.a])
    ELSE c.history = ProviderFetch(c.asked[1], c.a, c.upstream).history

\* C5: in both services a call makes at most one cache Set, and a call whose
\* provider succeeded (for orders, with a matching email) returns the
\* provider's result with a nil error after exactly one Set, whether that Set
\* succeeded or failed.
C5_SetFailureNotReturned ==
    \A w \in OrderCalls \cup TrackingCalls :
        LET c == call[w]
        IN  /\ c.sets <= 1
            /\ (c.pc = "done" /\ ProviderSucceeded(c)) =>
                  /\ c.err = NoError
                  /\ c.hasVal
                  /\ Provided(c)
                  /\ c.status = 200
                  /\ c.sets = 1

\* An order call and a tracking call have both returned 200 after a failed Set.
C5_Witness ==
    \E w, v \in Workers :
        /\ call[w].kind = "order" /\ call[v].kind = "tracking"
        /\ \A u \in {w, v} :
              /\ call[u].pc = "done"
              /\ call[u].sets = 1
              /\ ~call[u].setOK
              /\ call[u].status = 200

FellThrough(c) == c.got # "none" /\ ~DecodableHit(c)

CacheErrors == {<<"key not found">>, <<"failed to get key">>, <<"failed to set key">>}

NeverCacheError(c) == \A e \in CacheErrors : ~ErrorsIs(c.err, e)

\* C6 as claimed: a GetTrackingHistory call whose cache Get did not answer
\* with a decodable entry goes on to the provider, never returns the cache's
\* error, and after a successful fetch the entry under the key is the fresh
\* encoding.
C6_FallThroughOverwrites ==
    \A w \in TrackingCalls :
        LET c == call[w]
        IN  (FellThrough(c) /\ SelectProvider(c.b, 1) # 0) =>
              /\ c.pc \in {"fetch", "set", "done"}
              /\ NeverCacheError(c)
              /\ c.pc = "done" =>
                    /\ Len(c.asked) = 1
                    /\ c.upstream \in {"transit", "delivered"} =>
                          /\ c.err = NoError
                          /\ c.stored = MarshalHistory(c.history)

\* C6 as amended: the same, except that after a successful fetch one Set of
\* the fresh encoding is made, and the entry under the key is that encoding
\* when the Set succeeds.
C6_FallThroughSetsFresh ==
    \A w \in TrackingCalls :
        LET c == call[w]
        IN  (FellThrough(c) /\ SelectProvider(c.b, 1) # 0) =>
              /\ c.pc \in {"fetch", "set", "done"}
              /\ NeverCacheError(c)
              /\ c.pc = "done" =>
                    /\ Len(c.asked) = 1
                    /\ c.upstream \in {"transit", "delivered"} =>
                          /\ c.err = NoError
                          /\ c.sets = 1
                          /\ c.wrote = MarshalHistory(c.history)
                          /\ Provided(c)
                          /\ c.setOK => c.stored = c.wrote

\* One call read an entry that does not decode and replaced it by the fresh
\* encoding; another call's Get failed in transport and it still returned 200.
C6_Witness ==
    \E w, v \in TrackingCalls :
        /\ call[w].got = "ok" /\ call[w].gotData = GarbageDoc
        /\ Succeeded(call[w]) /\ call[w].setOK
        /\ cache[call[w].key] = MarshalHistory(call[w].history)
        /\ call[v].got = "error"
        /\ Succeeded(call[v])

NotSupported(courier) == \A i \in 1..Len(Providers) : ~SupportsCourier(i, courier)

\* C7: a GetTrackingHistory call for a courier no registered provider
\* supports, whose cache Get did not answer with a decodable entry, returns
\* no history and ErrCourierNotSupported, at once, without a provider fetch
\* and without a cache Set.
C7_UnsupportedCourier ==
    \A w \in TrackingCalls :
        LET c == call[w]
        IN  (NotSupported(c.b) /\ FellThrough(c)) =>
              /\ c.pc = "done"
              /\ ~c.hasVal
              /\ c.history = ZeroHistory
              /\ c.err = ErrCourierNotSupported
              /\ c.asked = << >>
              /\ c.sets = 0
              /\ c.wrote = NoDoc

\* A call for an unsupported courier ended in ErrCourierNotSupported while
\* the cache held nothing under its key.
C7_Witness ==
    \E w \in TrackingCalls :
        /\ call[w].b = Servientrega
        /\ call[w].got = "notfound"
        /\ call[w].err = ErrCourierNotSupported
        /\ call[w].status = 404

FirstSupporting(i, courier) ==
    /\ i \in 1..Len(Providers)
    /\ SupportsCourier(i, courier)
    /\ \A j \in 1..(i - 1) : ~SupportsCourier(j, courier)

\* C8: a GetTrackingHistory call fetches from at most one provider, and that
\* one is the first in registration order whose SupportsCourier accepts the
\* courier; a call that missed the cache and ended has fetched from exactly
\* that provider and, when the fetch succeeded, returns its history unchanged.
C8_FirstSupportingProviderOnly ==
    \A w \in TrackingCalls :
        LET c == call[w]
        IN  /\ Len(c.asked) <= 1
            /\ \A n \in 1..Len(c.asked) : FirstSupporting(c.asked[n], c.b)
            /\ (FellThrough(c) /\ ~NotSupported(c.b) /\ c.pc = "done") =>
                  /\ Len(c.asked) = 1
                  /\ c.upstream \in {"transit", "delivered"} =>
                        /\ c.hasVal
                        /\ c.history = ProviderFetch(c.asked[1], c.a, c.upstream).history

\* A call that missed the cache returned the history of the second
\* registered provider.
C8_Witness ==
    \E w \in TrackingCalls :
        /\ call[w].got = "notfound"
        /\ Succeeded(call[w])
        /\ call[w].asked = <<2>>
        /\ call[w].history = Delivered

\* C9: a GetTrackingHistory call whose provider fetch failed returns no
\* history and an error that wraps the provider's error, has made no cache
\* Set and has fetched from no other provider.
C9_ProviderErrorWrapped ==
    \A w \in TrackingCalls :
        LET c == call[w]
        IN  c.upstream = "err" =>
              /\ c.pc = "done"
              /\ ~c.hasVal
              /\ c.history = ZeroHistory
              /\ c.err # ProviderFetch(c.asked[1], c.a, "err").err
              /\ c.err[1] = "failed to get tracking from provider: %w"
              /\ ErrorsIs(c.err, ProviderFetch(c.asked[1], c.a, "err").err)
              /\ c.status = 500
              /\ c.sets = 0
              /\ c.wrote = NoDoc
              /\ Len(c.asked) = 1

\* A call ended with the wrapped error of the first registered provider.
C9_Witness ==
    \E w \in TrackingCalls :
        /\ call[w].upstream = "err"
        /\ call[w].asked = <<1>>
        /\ call[w].pc = "done"

\* C10: when the upstream shop answers 404 the order call returns
\* ErrOrderNotFound and the handler responds 404; ErrEmailMismatch gives 401,
\* any other failure 500, success 200.
C10_OrderStatusCodes ==
    \A w \in OrderCalls :
        LET c == call[w]
        IN  c.pc = "done" =>
              /\ c.upstream = "404" =>
                    (ErrorsIs(c.err, ErrOrderNotFound) /\ c.status = 404)
              /\ c.err = ErrEmailMismatch => c.status = 401
              /\ c.err = NoError => c.status = 200
              /\ (c.err # NoError /\ c.err # ErrEmailMismatch /\ c.upstream # "404")
                    => c.status = 500

FinishedTracking == {w \in Workers : call[w].kind = "tracking" /\ call[w].pc = "done"}

MissingParameter(c) == c.a = EmptyString \/ c.b = EmptyString

OrderBuilt == woo.pc = "mapped"

\* The upstream spellings of each status word.
CompletedSpellings == {<<"completed">>, <<"Completed">>}
CancelledSpellings == {<<"cancelled">>, <<"REFUNDED">>, <<"failed">>}
CreatedSpellings == {<<"pending">>, <<"processing">>, <<"On-Hold">>}

BlankEntry(t) == t.TrackingProvider = EmptyString /\ t.TrackingNumber = EmptyString

\* C13: the tracking list of an order built by the adapter, whichever of the
\* four sources it came from, has no entry whose provider and waybill are
\* both empty.
C13_NoBlankTrackingEntry ==
    OrderBuilt => \A i \in 1..Len(woo.tracking) : ~BlankEntry(woo.tracking[i])

InterMapped == inter.pc = "mapped"

HasCode(code) == \E i \in 1..Len(inter.codes) : inter.codes[i] = code

\* C20: an Interrapidisimo payload whose events contain exactly one of the
\* codes 11, 10, 7 (any number of times, at any position among other codes)
\* maps to COMPLETED, RETURN or INCIDENCE respectively; a payload with none
\* of the three, unknown codes included, maps to PROCESSING; and the mapping
\* never returns an error.
C20_InterGlobalStatus ==
    InterMapped =>
        /\ inter.err = NoError
        /\ (HasCode(11) /\ ~HasCode(10) /\ ~HasCode(7)) =>
              inter.GlobalStatus = <<"COMPLETED">>
        /\ (HasCode(10) /\ ~HasCode(11) /\ ~HasCode(7)) =>
              inter.GlobalStatus = <<"RETURN">>
        /\ (HasCode(7) /\ ~HasCode(11) /\ ~HasCode(10)) =>
              inter.GlobalStatus = <<"INCIDENCE">>
        /\ (~HasCode(11) /\ ~HasCode(10) /\ ~HasCode(7)) =>
              inter.GlobalStatus = <<"PROCESSING">>

\* A payload delivered before its last, unknown-coded event was mapped to
\* COMPLETED.
C20_Witness ==
    /\ InterMapped
    /\ Len(inter.codes) >= 2
    /\ inter.codes[1] = 11
    /\ inter.codes[Len(inter.codes)] = 99
    /\ ~HasCode(10) /\ ~HasCode(7)
    /\ inter.GlobalStatus = <<"COMPLETED">>

StartReturned(c) == caller[c].op = "start" /\ caller[c].pc = "done"

StopReturned(c) == caller[c].op = "stop" /\ caller[c].pc = "done"

\* C14: as long as no Stop has been called, however many Start calls were
\* made, one after the other or at the same time, at most one listener is
\* bound (exactly one once a Start has returned without an error), one accept
\* loop is started per listener, a Start that finds the proxy running binds
\* nothing, and every Start that returned without an error returned the
\* address of that one listener.
C14_StartIdempotent ==
    hist.stops = 0 =>
        /\ Len(sock.ports) <= 1
        /\ Len(sock.loop) = Len(sock.ports)
        /\ Cardinality(hist.startAddrs) <= 1
        /\ \A c \in Callers :
              (StartReturned(c) /\ caller[c].err = NoError) =>
                  /\ Len(sock.ports) = 1
                  /\ caller[c].addr = <<"http://127.0.0.1:">> \o Itoa(sock.ports[1])
                  /\ caller[c].found => caller[c].bound = 0

\* Two Start calls with no Stop: one bound the listener, the other found the
\* proxy running, and both returned the same address.
C14_Witness ==
    /\ hist.stops = 0
    /\ \E c, d \in Callers :
          /\ c # d
          /\ StartReturned(c) /\ caller[c].bound = 1 /\ caller[c].err = NoError
          /\ StartReturned(d) /\ caller[d].found /\ caller[d].err = NoError
          /\ caller[c].addr = caller[d].addr
          /\ caller[c].addr # EmptyString

\* C15: a Stop that took the mutex on a proxy that was never started, or on
\* one that an earlier Stop had stopped, returns nil and leaves running,
\* listener, server and the local port as it found them.
C15_StopNoOpWhenNotRunning ==
    \A c \in Callers :
        (StopReturned(c) /\ caller[c].lifeBefore \in {"new", "stopped"}) =>
            /\ caller[c].err = NoError
            /\ caller[c].after = caller[c].before

\* C16: when a Stop that found the proxy running returns, with or without an
\* error, the listener of the proxy is closed.
C16_ListenerClosedWhenStopReturns ==
    \A c \in Callers :
        (StopReturned(c) /\ caller[c].found) => ~caller[c].openAtReturn

\* C19: no task holds fp.mu while it is in net.Listen, in the sleep of Start
\* or waiting for server.Shutdown.
C19_MutexNotHeldWhileSuspended ==
    \A c \in Callers :
        caller[c].pc \in {"listen", "sleep", "shutdown"} => fp.mu # c

\* The destination's name without its port.
HostnameOf(dest) ==
    IF \E i \in 1..Len(dest) : dest[i] = ":"
    THEN SubSeq(dest, 1, (CHOOSE i \in 1..Len(dest) :
                             /\ dest[i] = ":"
                             /\ \A j \in 1..(i - 1) : dest[j] # ":") - 1)
    ELSE dest

EndsWith(s, t) == \E k \in 0..Len(s) : SubSeq(s, k + 1, Len(s)) = t

Requested == traffic.method # "none"

OffTheAllowlist ==
    /\ fp.allowedDomains # << >>
    /\ \A d \in 1..Len(fp.allowedDomains) :
          ~EndsWith(HostnameOf(traffic.host), fp.allowedDomains[d])

\* C17: a request through a running proxy that has an allowlist, to a
\* destination whose name without the port ends with none of the allowlist
\* entries, is answered 403 when it is a plain HTTP request and gets the
\* reject verdict when it is a CONNECT, and the upstream proxy is not dialled
\* for it.
C17_AllowlistRejects ==
    (Requested /\ OffTheAllowlist) =>
        /\ traffic.method = "GET" => traffic.status = 403
        /\ traffic.method = "CONNECT" => traffic.verdict = "reject"
        /\ ~traffic.dialled

\* A CONNECT to a name that merely contains an allowlist entry was rejected
\* by a running proxy without a dial.
C17_Witness ==
    /\ fp.running
    /\ fp.allowedDomains = <<ExampleTest>>
    /\ traffic.method = "CONNECT"
    /\ traffic.host = ExampleTest \o <<".", "evil", ".", "com", ":", "443">>
    /\ traffic.verdict = "reject"
    /\ ~traffic.dialled

LookupReturned == lookup.pc = "returned"

TimeoutOrCancellation(err) ==
    /\ err # NoError
    /\ err[Len(err)] \in {"context canceled", "context deadline exceeded"}

\* C18: an adapter GetTrackingHistory call that was in flight when the
\* context of its HTTP request was cancelled returns a timeout or
\* cancellation error, and does not go on until its own deadline of 60
\* seconds.
C18_CancelEndsAdapterCall ==
    (LookupReturned /\ lookup.reqCancelled) =>
        /\ TimeoutOrCancellation(lookup.err)
        /\ lookup.returnedAt = AdapterTimeoutSeconds =>
              lookup.cancelledAt = AdapterTimeoutSeconds

PayloadMapped == mapper.pc = "mapped"

EventCode(i) == mapper.resp.events[i].code

EventCount == Len(mapper.resp.events)

\* The status a single event stands for in the carrier's table, PROCESSING
\* for an event that bears none.
StatusOfEvent(i) ==
    IF mapper.carrier = InterrapidisimoCo
    THEN IF EventCode(i) = 11 THEN <<"COMPLETED">>
         ELSE IF EventCode(i) = 10 THEN <<"RETURN">>
         ELSE IF EventCode(i) = 7 THEN <<"INCIDENCE">>
         ELSE <<"PROCESSING">>
    ELSE IF EventCode(i) = <<"6">> THEN <<"COMPLETED">>
         ELSE IF EventCode(i) = <<"8">> THEN <<"RETURN">>
         ELSE IF EventCode(i) # << >> /\ EventCode(i)[1] = "7" THEN <<"INCIDENCE">>
         ELSE <<"PROCESSING">>

Terminal(i) == StatusOfEvent(i) \in {<<"COMPLETED">>, <<"RETURN">>}

\* C21: in a payload of Interrapidisimo or Coordinadora, when a delivered or
\* returned event is followed only by incidence and transit events, the
\* global status is the one of that delivered or returned event.
C21_TerminalStatusSticky ==
    (PayloadMapped /\ mapper.carrier \in {InterrapidisimoCo, CoordinadoraCo}) =>
        \A i \in 1..EventCount :
            (Terminal(i) /\ \A j \in (i + 1)..EventCount : ~Terminal(j)) =>
                mapper.GlobalStatus = StatusOfEvent(i)

OnlyStatus(status) ==
    /\ \E i \in 1..EventCount : StatusOfEvent(i) = status
    /\ \A i \in 1..EventCount : StatusOfEvent(i) \in {status, <<"PROCESSING">>}

\* C22: a Coordinadora payload whose events bear one status only maps to
\* COMPLETED when that is code "6", to RETURN when it is code "8", to
\* INCIDENCE when it is a code beginning with "7"; a payload none of whose
\* events bears a status maps to PROCESSING; and the mapping returns no
\* error, whatever the codes.
C22_CoordinadoraGlobalStatus ==
    (PayloadMapped /\ mapper.carrier = CoordinadoraCo) =>
        /\ mapper.err = NoError
        /\ OnlyStatus(<<"COMPLETED">>) => mapper.GlobalStatus = <<"COMPLETED">>
        /\ OnlyStatus(<<"RETURN">>) => mapper.GlobalStatus = <<"RETURN">>
        /\ OnlyStatus(<<"INCIDENCE">>) => mapper.GlobalStatus = <<"INCIDENCE">>
        /\ (\A i \in 1..EventCount : StatusOfEvent(i) = <<"PROCESSING">>) =>
              mapper.GlobalStatus = <<"PROCESSING">>

\* A payload with a transit event, an unknown code, a code that begins like
\* the delivered one, and two incidences was mapped to INCIDENCE.
C22_Witness ==
    /\ PayloadMapped /\ mapper.carrier = CoordinadoraCo
    /\ EventCount = 3
    /\ EventCode(1) = <<"6", "7">>
    /\ EventCode(2) = <<"7", "2", "8">>
    /\ EventCode(3) = <<"post_binded">>
    /\ mapper.GlobalStatus = <<"INCIDENCE">>
    /\ mapper.err = NoError

Estado == mapper.resp.estadoActual

\* C23: for a Servientrega payload with results, estadoActual "ENTREGADO"
\* maps to COMPLETED, "ENTREGADO A REMITENTE" to RETURN and
\* "EN PROCESAMIENTO" to PROCESSING.
C23_ServientregaGlobalStatus ==
    (PayloadMapped /\ mapper.carrier = ServientregaCo /\ mapper.resp.hasResults) =>
        /\ Estado = <<"ENTREGAD", "O">> => mapper.GlobalStatus = <<"COMPLETED">>
        /\ Estado = <<"ENTREGAD", "O", " ", "A", " ", "REMITENTE">> =>
              mapper.GlobalStatus = <<"RETURN">>
        /\ Estado = <<"EN", " ", "PROCESAMIENTO">> =>
              mapper.GlobalStatus = <<"PROCESSING">>

\* The code of an event as a string.
CodeString(code) ==
    IF mapper.carrier = InterrapidisimoCo
    THEN CASE code = 3 -> <<"3">> [] code = 7 -> <<"7">> [] code = 11 -> <<"1", "1">>
    ELSE code

\* The dates that are written as the carrier writes them.
Parseable(date) ==
    IF mapper.carrier = CoordinadoraCo
    THEN date = <<"2023-12-28", " ", "10:50:44">>
    ELSE IF mapper.carrier = ServientregaCo
         THEN date \in {<<"31/01/2026", " ", "12:51", " ">>,
                        <<"31/01/2026", " ", "12:51">>}
         ELSE date \in {<<"2025-05-10", "T", "13:06:23", ".02">>,
                        <<"2025-05-10", "T", "13:06:23">>}

\* C24: the history of a payload that mapped without error has one event per
\* event of the payload, in the same order, each with the code of its event
\* as a string; an event whose date is not written as the carrier writes
\* dates is there with the zero time, and one whose date is has its instant.
C24_HistoryMirrorsPayload ==
    (PayloadMapped /\ mapper.err = NoError) =>
        /\ Len(mapper.History) = EventCount
        /\ \A i \in 1..EventCount :
              /\ mapper.History[i].Code = CodeString(EventCode(i))
              /\ Parseable(mapper.resp.events[i].date) <=>
                    mapper.History[i].Date # "0001-01-01T00:00:00Z"

\* A Servientrega payload whose second of three events has a date in another
\* format kept all three, the second with the zero time.
C24_Witness ==
    /\ PayloadMapped /\ mapper.carrier = ServientregaCo /\ mapper.err = NoError
    /\ EventCount = 3
    /\ <<EventCode(1), EventCode(2), EventCode(3)>> = << <<"1">>, <<"99">>, <<"1">> >>
    /\ mapper.resp.events[2].date = <<"2023-12-28", " ", "10:50:44">>
    /\ Len(mapper.History) = 3
    /\ mapper.History[1].Date = "2026-01-31T12:51:00Z"
    /\ mapper.History[2].Date = "0001-01-01T00:00:00Z"
    /\ mapper.History[2].Code = <<"99">>

\* What each source of tracking yields for the order: 1 the shipping lines,
\* 2 the plugin metadata, 3 the legacy metadata, 4 the customer notes.
SourceEntries(k) ==
    CASE k = 1 -> ShippingLineTracking(woo.order.ShippingLines)
      [] k = 2 -> PluginTracking(woo.order.MetaData)
      [] k = 3 -> EntryIfAny(LastValue(woo.order.MetaData, LegacyCompanyKeys,
                                       EmptyString),
                             LastValue(woo.order.MetaData, LegacyNumberKeys,
                                       EmptyString))
      [] k = 4 -> getTrackingFromNotes(woo.notes)

\* C25: the tracking list of an order built by the adapter is exactly what
\* the first of the sources shipping lines, plugin metadata, legacy metadata,
\* customer notes that yields an entry yields, and is empty when none does.
C25_FirstSourceWins ==
    OrderBuilt =>
        /\ \A k \in 1..4 :
              (SourceEntries(k) # << >> /\ \A j \in 1..(k - 1) : SourceEntries(j) = << >>)
                  => woo.tracking = SourceEntries(k)
        /\ (\A k \in 1..4 : SourceEntries(k) = << >>) => woo.tracking = << >>

\* An order with no tracking in its shipping lines or plugin metadata, whose
\* legacy metadata and customer notes both yield an entry, got the legacy
\* entry alone.
C25_Witness ==
    /\ OrderBuilt
    /\ SourceEntries(1) = << >> /\ SourceEntries(2) = << >>
    /\ SourceEntries(3) # << >> /\ SourceEntries(4) # << >>
    /\ SourceEntries(3) # SourceEntries(4)
    /\ woo.tracking = SourceEntries(3)

AcceptedConnect ==
    Requested /\ traffic.method = "CONNECT" /\ traffic.verdict = "ok"

IsPrefix(s, t) == Len(s) <= Len(t) /\ \A i \in 1..Len(s) : s[i] = t[i]

Took(step) == \E i \in 1..Len(traffic.steps) : traffic.steps[i] = step

\* C26: for a CONNECT the proxy accepted, the steps taken are an initial part
\* of dial, write, read, splice that begins with the dial; bytes are spliced
\* only when the upstream proxy answered 200; and the CONNECT request
\* written to the upstream proxy has a Proxy-Authorization header, with the
\* value Basic base64(user:pass), exactly when the upstream URL names a user.
C26_ConnectStepsInOrder ==
    AcceptedConnect =>
        /\ traffic.steps # << >>
        /\ IsPrefix(traffic.steps, <<"dial", "write", "read", "splice">>)
        /\ Took("splice") => traffic.upstream = "tunnel"
        /\ Took("write") =>
              /\ traffic.wrote.target = traffic.host
              /\ traffic.wrote.auth # << >> <=> ~fp.upstreamURL.User.isNil
              /\ ~fp.upstreamURL.User.isNil =>
                    traffic.wrote.auth =
                        <<"Basic ", "base64(">> \o fp.upstreamURL.User.username
                        \o <<":">> \o fp.upstreamURL.User.password \o <<")">>

\* A CONNECT through a proxy whose upstream URL has credentials was dialled,
\* written with the header, answered 200 and spliced.
C26_Witness ==
    /\ AcceptedConnect
    /\ ~fp.upstreamURL.User.isNil
    /\ traffic.steps = <<"dial", "write", "read", "splice">>
    /\ traffic.wrote.auth = <<"Basic ", "base64(", "user", ":", "pass", ")">>

UpstreamFailed(t) ==
    t.dialled /\ t.upstream \in {"dialerr", "writeerr", "readerr", "non200"}

\* C27: a request for which the upstream dial, the CONNECT write or the read
\* of the response failed, or which the upstream proxy answered with a
\* status other than 200, ends with an error and an error status of its
\* own, the upstream connection opened for it is closed, nothing is spliced,
\* and the proxy, its listener and its accept loop are as before the
\* request.
C27_UpstreamFailurePerRequest ==
    [][(traffic' # traffic /\ UpstreamFailed(traffic')) =>
          /\ traffic'.err # NoError
          /\ traffic'.status \in {500, 502}
          /\ traffic'.opened => traffic'.closed
          /\ \A i \in 1..Len(traffic'.steps) : traffic'.steps[i] # "splice"
          /\ fp' = fp
          /\ sock' = sock]_vars

\* The upstream proxy answered a CONNECT with a status other than 200: the
\* connection to it was opened and closed again, the request failed, and the
\* proxy is running with its listener open.
C27_Witness ==
    /\ AcceptedConnect
    /\ traffic.upstream = "non200"
    /\ traffic.opened /\ traffic.closed
    /\ traffic.err # NoError
    /\ traffic.status = 502
    /\ fp.running
    /\ fp.listener \in sock.open
    /\ sock.loop[fp.listener] = "serving"

-----------------------------------------------------------------------------
(* The adapters' calls.                                                       *)

Constructed == 1..Len(scrape.proxies)

\* C28: every ForwardingProxy an adapter constructs is given an allowlist, and
\* the hosts that allowlist lets the local proxy forward to are hosts of the
\* carrier's own domain.
C28_AllowlistCoversCarrierOnly ==
    \A i \in Constructed :
        LET made == scrape.proxies[i]
        IN  /\ made.fp.allowedDomains # << >>
            /\ \A host \in BrowserHosts :
                   isAllowed(made.fp.allowedDomains, host)
                       => EndsWith(HostnameOf(host), CarrierDomain(made.courier))

ScrapeReturned == scrape.pc = "returned"

ScrapeEnded == scrape.pc \in {"returned", "panicked"}

\* The instance is the local variable proxyForwarder of the call in progress.
InUse(i) == i = scrape.proxyForwarder /\ ~ScrapeEnded

\* C29: a ForwardingProxy whose Start succeeded is stopped exactly once, when
\* the call that constructed it returns, whatever the return path, and not
\* before; and every instance belongs to one call, the one that constructed
\* it, which is the only call whose proxyForwarder it ever is.
C29_CallOwnsItsProxy ==
    \A i \in Constructed :
        LET made == scrape.proxies[i]
        IN  /\ made.started => made.stops = IF InUse(i) THEN 0 ELSE 1
            /\ made.starts = 1
            /\ \A j \in Constructed : j # i => scrape.proxies[j].call # made.call
            /\ (i = scrape.proxyForwarder) <=> (made.call = scrape.n)

\* Two calls each started a forwarder; the first returned with a result and
\* the second on the deadline, and both instances were stopped once.
C29_Witness ==
    /\ ScrapeReturned
    /\ scrape.n = 2
    /\ scrape.path = "timeout"
    /\ Len(scrape.proxies) = 2
    /\ scrape.proxyForwarder = 2
    /\ \A i \in Constructed :
          scrape.proxies[i].started /\ scrape.proxies[i].stops = 1

\* The handler task is at its send on the channel done.
AtSend(h) == scrape.handlers[h] = "send"

\* C30: once GetTrackingHistory has returned, no hijack handler task of the
\* call is blocked at its send of the intercepted body, and none of an
\* earlier call is either.
C30_NoHandlerBlockedAfterReturn ==
    /\ scrape.blocked = 0
    /\ ScrapeReturned => \A h \in 1..MaxIntercepts : ~AtSend(h)

\* The navigation loop of the call is over.
NavigationOver == scrape.pc \notin {"navigate", "backoff"}

IsAttempt(k) == scrape.nav[k].step = "attempt"

IsSleep(k) == scrape.nav[k].step = "sleep"

\* C31: a Servientrega call makes at most 3 navigation attempts, none after a
\* successful one; every backoff stands between two attempts; and no attempt
\* or backoff begins once the master deadline has fired.
C31_NavigationRetries ==
    /\ Attempts(scrape) <= 3
    /\ \A k \in 1..Len(scrape.nav) :
          /\ IsAttempt(k) /\ scrape.nav[k].ok => k = Len(scrape.nav)
          /\ IsSleep(k) =>
                /\ k > 1 /\ IsAttempt(k - 1)
                /\ NavigationOver => k < Len(scrape.nav) /\ IsAttempt(k + 1)
          /\ ~scrape.nav[k].late

\* The hijack is installed and the main task is at its select.
Waiting == scrape.pc = "wait"

\* The step is the select receiving a body from a handler at its send.
BodyDelivered ==
    /\ scrape'.path \in {"success", "parse", "courier"}
    /\ \E h \in 1..MaxIntercepts :
          AtSend(h) /\ scrape'.handlers[h] = "ended"

\* The step is the select receiving from the done context.
DeadlineTaken ==
    /\ scrape.expired
    /\ scrape'.path \in {"timeout", "navigation"}

BrowserStepFailed == scrape.path \in {"page", "hijack", "interact", "panic"}

\* C36: a call that a failing browser step ended has returned an error to its
\* caller; none has left GetTrackingHistory as a panic.
C36_BrowserFailureIsReturned == BrowserStepFailed => ScrapeReturned

-----------------------------------------------------------------------------
(* The Servientrega mapper's event text.                                      *)

\* The text the movement i of the payload is to have.
TextOf(i) ==
    LET mov == mapper.resp.events[i]
    IN  IF mov.Novedad = EmptyString THEN mov.movimiento
        ELSE mov.movimiento \o <<" - ">> \o mov.Novedad

\* C33: each event the Servientrega mapper makes has the movement's
\* movimiento as its text, followed by " - " and the Novedad when the
\* movement has one.
C33_TextCarriesNovedad ==
    PayloadMapped /\ mapper.carrier = ServientregaCo /\ mapper.err = NoError
        => \A i \in 1..Len(mapper.History) : mapper.History[i].Text = TextOf(i)

-----------------------------------------------------------------------------
(* The services' reading of the cache.                                        *)

\* The call of the worker has gone on from its cache read to the provider.
AtProvider(w) == call[w].pc = "fetch"

\* C34: a service call whose cache Get reported an absent key and one of the
\* same service whose Get failed in transport are told apart by the service:
\* they do not go on by the same branch, the one that asks the provider.
C34_MissAndFailureTakeDifferentBranches ==
    \A v \in Workers : \A w \in Workers :
        /\ call[v].kind = call[w].kind
        /\ call[v].got = "notfound"
        /\ call[w].got = "error"
        => ~(AtProvider(v) /\ AtProvider(w))

-----------------------------------------------------------------------------
(* The notes request of the order adapter.                                    *)

EarlierSourcesEmpty == \A k \in 1..3 : SourceEntries(k) = << >>

\* C35: while an order is built the notes of the order are requested at most
\* once, and only when the shipping lines, the plugin metadata and the legacy
\* metadata all yield no tracking; and when that request fails the order is
\* built all the same, with no tracking.
C35_NotesRequestedLast ==
    OrderBuilt =>
        /\ woo.notesCalls <= 1
        /\ woo.notesCalls = 1 => EarlierSourcesEmpty
        /\ woo.notesCalls = 1 /\ woo.notes.failure # "none"
               => woo.tracking = << >>

\* An order without tracking in its payload was built without tracking
\* after the notes request was answered with a status other than 200.
C35_Witness ==
    /\ OrderBuilt
    /\ EarlierSourcesEmpty
    /\ woo.notesCalls = 1
    /\ woo.notes.failure = "status"
    /\ woo.tracking = << >>

-----------------------------------------------------------------------------
(* The entries of the services in the cache.                                  *)

\* The entry under the key of an order id and an email.
OrderEntry(orderID, email) == cache[OrderCacheKey(orderID, email)]

\* C37: whatever calls have run or are running, the entry under the key of
\* an order id and an email, when there is one, decodes to an order whose
\* Email equals that email but for case.
C37_OrderEntryMatchesKeyEmail ==
    \A r \in OrderRequests :
        r[2] # EmptyString /\ OrderEntry(r[1], r[2]) # NoDoc
            => /\ UnmarshalOrder(OrderEntry(r[1], r[2])).ok
               /\ EqualFold(UnmarshalOrder(OrderEntry(r[1], r[2])).val.Email, r[2])

\* The call has made its Set.
Wrote(w) == call[w].sets > 0

\* What the provider the call asked last answered.
Fetched(w) ==
    ProviderFetch(call[w].asked[Len(call[w].asked)], call[w].a, call[w].upstream)

\* Two calls for one key that both missed, both wrote, and are both over.
WroteSameKey(v, w) ==
    /\ v # w
    /\ call[v].key = call[w].key
    /\ call[v].pc = "done" /\ call[w].pc = "done"
    /\ call[v].got # "ok" /\ call[w].got # "ok"
    /\ call[v].setOK /\ call[w].setOK

\* C38: under every interleaving, what a tracking call writes it writes
\* under ts_{courier}_{waybill} of its own courier and waybill, and it is the
\* whole encoding of the history that the one provider it asked, which
\* supports the courier, returned without error for that waybill; and when
\* two calls that missed on one key have both written, the entry is what one
\* of them wrote, until it expires.
C38_EntryIsAProviderResult ==
    /\ \A w \in TrackingCalls :
          Wrote(w) =>
             /\ call[w].key = <<"ts", "_">> \o call[w].b \o <<"_">> \o call[w].a
             /\ Len(call[w].asked) = 1
             /\ SupportsCourier(call[w].asked[1], call[w].b)
             /\ Fetched(w).err = NoError
             /\ UnmarshalHistory(call[w].wrote).ok
             /\ UnmarshalHistory(call[w].wrote).val = Fetched(w).history
             /\ call[w].setOK => call[w].stored = call[w].wrote
    /\ \A v \in TrackingCalls : \A w \in TrackingCalls :
          WroteSameKey(v, w) =>
             cache[call[w].key] \in {call[v].wrote, call[w].wrote, NoDoc}

\* Two calls missed on one key, each asked the provider, which answered them
\* differently, and each wrote; the entry is what the first worker wrote.
C38_Witness ==
    /\ WroteSameKey("w1", "w2")
    /\ call["w1"].kind = "tracking"
    /\ call["w1"].asked # << >> /\ call["w2"].asked # << >>
    /\ call["w1"].wrote # call["w2"].wrote
    /\ cache[call["w1"].key] = call["w1"].wrote

-----------------------------------------------------------------------------
(* The forwarding proxy's running flag.                                       *)

\* No call is inside Start or Stop.
ProxyAtRest == fp.mu = "free"

\* C39: whenever no Start or Stop is under way, a proxy whose running flag is
\* set has its listener open, on the port LocalAddr names; a Stop that found
\* the proxy running has cleared the flag when it returns, with or without an
\* error; and a Start made after such a Stop binds a listener of its own.
C39_RunningMeansListening ==
    /\ ProxyAtRest /\ fp.running =>
          /\ fp.listener \in sock.open
          /\ LocalAddr(fp.localPort) = LocalAddr(sock.ports[fp.listener])
    /\ \A c \in Callers :
          /\ StopReturned(c) /\ caller[c].found => ~caller[c].after[1]
          /\ (StartReturned(c) /\ caller[c].err = NoError
                 /\ caller[c].lifeBefore = "stopped")
                => caller[c].bound # 0 /\ ~caller[c].found

=============================================================================
